---- MODULE Spec2Model ----
(***************************************************************************)
(* Bookei: the book generation engine of final.py (main, the CLI) and of   *)
(* gui.py (run_generation_logic, the GUI worker).  One state machine, the  *)
(* front-end being an input: the two engines differ in a few places only,  *)
(* and each action says where.                                             *)
(***************************************************************************)
EXTENDS Integers, Sequences, FiniteSets, TLC

\* ---------------------------------------------------------------- constants
MAX_GENERATION_ATTEMPTS == 4
OUTLINE_CHUNK_THRESHOLD == 15
CHAPTERS_PER_OUTLINE_CHUNK == 3
SUBCHAPTER_THRESHOLD == 1500
TARGET_SUBCHAPTER_WORDS == 500
MAX_CONTEXT_CHARS == 2000
OUTLINE_CONTEXT_CHARS == 1000
\* 100 <= I_wordsPerChapter <= 15000
MinWordsPerChapter == 100
MaxWordsPerChapter == 15000
\* durations are counted in half seconds
FreeTierWait == 10
PaidTierWait == 1
NewKeyWait == 2

\* ------------------------------------------------------------------- bounds
\* chapters of the book (the program accepts 1..200)
MaxChapters == 4
\* units, per session, that get an answer of the API other than the ordinary
\* one (an error, a quota error, a short or empty text, an outline with
\* brackets); such a unit may get any number of them
MaxFaults == 1
\* sessions run one after the other with the same inputs
MaxRuns == 2
\* chapters of the book where the outline alone is generated
MaxChaptersOutline == 16
\* lines of an outline, chapters of the book, where outlines with markers
\* are looked up
MaxOutlineLines == 3
MaxChaptersExtract == 2
\* chapters of the book when the word-count gate and the delays are examined
MaxChaptersGate == 2
\* chapters of the book in sessions where every call succeeds at once
MaxChaptersClean == 20
MaxRequests == 3
MaxKeys == 2

\* --------------------------------------------------------------- arithmetic
Min(a, b) == IF a < b THEN a ELSE b
Max(a, b) == IF a > b THEN a ELSE b
\* math.ceil(a / b) for positive integers
CeilDiv(a, b) == (a + b - 1) \div b

\* ---------------------------------------------------------------- the texts
\* A text the API generates for a chapter or a sub-chapter: its length in
\* characters and its number of words (len(text.split())).
TextLong == [name |-> "long", len |-> 9000, words |-> 1500]
TextShort == [name |-> "short", len |-> 1200, words |-> 200]
TextEmpty == [name |-> "empty", len |-> 0, words |-> 0]
ContentTexts == {TextLong, TextShort, TextEmpty}

RECURSIVE SumLen(_)
SumLen(parts) ==
    IF parts = <<>> THEN 0 ELSE Head(parts).len + SumLen(Tail(parts))

\* len("\n\n".join(parts))
JoinLen(parts) ==
    IF parts = <<>> THEN 0 ELSE SumLen(parts) + 2 * (Len(parts) - 1)

\* "\n\n".join(parts): a string is the sequence of the texts that make it,
\* the empty string being <<>>
Join(parts) == IF JoinLen(parts) = 0 THEN <<>> ELSE parts

\* text[-n:] : the string it is cut from and the number of characters kept
LastChars(full, n) == [of |-> full, chars |-> Min(JoinLen(full), n)]

\* An outline text, run-length encoded: a sequence of [ch, n], n times ch.
OutlinePlain == <<[ch |-> "a", n |-> 1200]>>
OutlineBracketed ==
    <<[ch |-> "<", n |-> 1], [ch |-> "b", n |-> 40], [ch |-> ">", n |-> 1]>>
OutlineEmpty == <<>>
OutlineTexts == {OutlinePlain, OutlineBracketed, OutlineEmpty}

RECURSIVE RunLen(_)
RunLen(s) == IF s = <<>> THEN 0 ELSE Head(s).n + RunLen(Tail(s))

\* s[-k:] on a run-length encoded string
RECURSIVE LastRuns(_, _)
LastRuns(s, k) ==
    IF s = <<>> \/ k <= 0 THEN <<>>
    ELSE LET last == s[Len(s)]
             front == SubSeq(s, 1, Len(s) - 1)
         IN IF last.n >= k THEN <<[ch |-> last.ch, n |-> k]>>
            ELSE LastRuns(front, k - last.n) \o <<last>>

IsBracket(r) == r.ch \in {"<", ">"}
KeepRunOpening(r) == r.ch # ">"
KeepRun(r) == ~IsBracket(r)
removeBrackets(text) == SelectSeq(text, KeepRun)

\* "\n\n".join(full_outline_parts)
RECURSIVE JoinOutline(_)
JoinOutline(parts) ==
    IF parts = <<>> THEN <<>>
    ELSE IF Len(parts) = 1 THEN parts[1]
    ELSE parts[1] \o <<[ch |-> "\n", n |-> 2]>> \o JoinOutline(Tail(parts))

\* ------------------------------------------------- lines of an outline text
\* str(n) for a natural number, as its characters
DigitChars == <<"0", "1", "2", "3", "4", "5", "6", "7", "8", "9">>
RECURSIVE StrOfNat(_)
StrOfNat(n) ==
    IF n < 10 THEN <<DigitChars[n + 1]>>
    ELSE StrOfNat(n \div 10) \o <<DigitChars[(n % 10) + 1]>>

\* a text given by its characters
Chars(cs) == [i \in 1..Len(cs) |-> [ch |-> cs[i], n |-> 1]]

\* the pieces of text.split("\n"), cur being the piece in progress
RECURSIVE SplitAtNewlines(_, _)
SplitAtNewlines(text, cur) ==
    IF text = <<>> THEN <<cur>>
    ELSE LET r == Head(text)
         IN IF r.ch = "\n"
            THEN IF r.n = 0 THEN SplitAtNewlines(Tail(text), cur)
                 ELSE <<cur>> \o
                      SplitAtNewlines(<<[ch |-> "\n", n |-> r.n - 1]>>
                                          \o Tail(text), <<>>)
            ELSE SplitAtNewlines(Tail(text), Append(cur, r))

\* text.splitlines(): no line after a final line break
splitlines(text) ==
    LET pieces == SplitAtNewlines(text, <<>>)
    IN IF pieces[Len(pieces)] = <<>>
       THEN SubSeq(pieces, 1, Len(pieces) - 1)
       ELSE pieces

IsSpace(r) == r.ch \in {" ", "\t"}
RECURSIVE lstrip(_)
lstrip(line) ==
    IF line = <<>> THEN <<>>
    ELSE IF IsSpace(Head(line)) THEN lstrip(Tail(line))
    ELSE line
RECURSIVE rstrip(_)
rstrip(line) ==
    IF line = <<>> THEN <<>>
    ELSE IF IsSpace(line[Len(line)]) THEN rstrip(SubSeq(line, 1, Len(line) - 1))
    ELSE line
\* line.strip()
strip(line) == rstrip(lstrip(line))

\* line.startswith(pat), pat given by its characters
RECURSIVE startswith(_, _)
startswith(line, pat) ==
    IF pat = <<>> THEN TRUE
    ELSE IF line = <<>> THEN FALSE
    ELSE LET r == Head(line)
         IN IF r.n = 0 THEN startswith(Tail(line), pat)
            ELSE IF r.ch # Head(pat) THEN FALSE
            ELSE startswith(<<[ch |-> r.ch, n |-> r.n - 1]>> \o Tail(line),
                            Tail(pat))

\* "\n".join(lines)
RECURSIVE JoinLines(_)
JoinLines(lines) ==
    IF lines = <<>> THEN <<>>
    ELSE IF Len(lines) = 1 THEN lines[1]
    ELSE lines[1] \o <<[ch |-> "\n", n |-> 1]>> \o JoinLines(Tail(lines))

\* ---------------------------------------------------------- derived values
\* the quotient rounded down
SubchaptersForRoundedDown(w) ==
    IF w > SUBCHAPTER_THRESHOLD
    THEN Max(3, w \div TARGET_SUBCHAPTER_WORDS)
    ELSE 0

SubchaptersFor(w) ==
    IF w > SUBCHAPTER_THRESHOLD
    THEN Max(3, CeilDiv(w, TARGET_SUBCHAPTER_WORDS))
    ELSE 0

\* the words of a sub-chapter rounded down
WordsPerSubForRoundedDown(w) ==
    IF w > SUBCHAPTER_THRESHOLD THEN w \div SubchaptersFor(w) ELSE 0
WordsPerSubFor(w) ==
    IF w > SUBCHAPTER_THRESHOLD THEN CeilDiv(w, SubchaptersFor(w)) ELSE 0

OutlineItemsFor(n, s) == IF s > 0 THEN n * s ELSE n

\* int(x * 1.8), word_multiplier
Inflate(x) == (x * 18) \div 10

\* ------------------------------------------------------------ PromptBuilder
\* The parts of a prompt that vary within a session.  start_chunk = 0 and
\* end_chunk = 0 stand for None.  outline is the bookOutline argument, of
\* which the prompt text carries the section relevant_outline.
NoContext(why) == [form |-> why, of |-> <<>>, chars |-> 0]
TailContext(tail) == [form |-> "tail", of |-> tail.of, chars |-> tail.chars]

prev_chap_context(lastChapter) ==
    IF lastChapter # <<>>
    THEN TailContext(LastChars(lastChapter, MAX_CONTEXT_CHARS))
    ELSE NoContext("N/A - This is the first chapter.")

prev_sub_context(lastSub) ==
    IF lastSub # <<>>
    THEN TailContext(LastChars(lastSub, MAX_CONTEXT_CHARS))
    ELSE NoContext("N/A - This is the first sub-chapter of the chapter or book.")

\* the chapter-level context whatever the unit
last_content_contextOfChapter(option, lastSub, lastChapter) ==
    prev_chap_context(lastChapter)

\* last_content_context = prev_chap_context if option == 2 else
\* prev_sub_context
last_content_context(option, lastSub, lastChapter) ==
    IF option = 2 THEN prev_chap_context(lastChapter)
    ELSE prev_sub_context(lastSub)

context_instructionWhole(start_chunk, end_chunk, previous_outline) ==
    IF start_chunk # 0 /\ end_chunk # 0
    THEN IF previous_outline # <<>>
         THEN [form |-> "tail", of |-> previous_outline,
               chars |-> RunLen(previous_outline)]
         ELSE NoContext("This is the first chunk of the outline.")
    ELSE NoContext("The whole book outline")

context_instruction(start_chunk, end_chunk, previous_outline) ==
    IF start_chunk # 0 /\ end_chunk # 0
    THEN IF previous_outline # <<>>
         THEN [form |-> "tail",
               of |-> LastRuns(previous_outline, OUTLINE_CONTEXT_CHARS),
               chars |-> RunLen(LastRuns(previous_outline, OUTLINE_CONTEXT_CHARS))]
         ELSE NoContext("This is the first chunk of the outline.")
    ELSE NoContext("The whole book outline")

\* The outline section of the unit: the lines from the first one that starts
\* with the marker of the unit up to a line that ends the section.
ChapterMarker == <<"C", "h", "a", "p", "t", "e", "r", ":">>
SubChapterMarker ==
    <<"-", " ", "S", "u", "b", "-", "C", "h", "a", "p", "t", "e", "r", ":">>
search_str_chap(chapter) == ChapterMarker \o <<" ">> \o StrOfNat(chapter) \o <<":">>
search_str_sub(subchapter) ==
    SubChapterMarker \o <<" ">> \o StrOfNat(subchapter) \o <<":">>
search_str(option, chapter, subchapter) ==
    IF option = 2 THEN search_str_chap(chapter) ELSE search_str_sub(subchapter)

\* the elif of the loop: the next chapter, the next sub-chapter (option 3)
\* or an empty line
EndsSection(option, stripped_line) ==
    \/ startswith(stripped_line, ChapterMarker)
    \/ option = 3 /\ startswith(stripped_line, SubChapterMarker)
    \/ stripped_line = <<>>

\* for line in outline_lines, with in_correct_section and section_lines
RECURSIVE section_lines(_, _, _, _, _)
section_lines(outline_lines, option, search, in_correct_section, acc) ==
    IF outline_lines = <<>> THEN acc
    ELSE LET line == Head(outline_lines)
             stripped_line == strip(line)
             rest == Tail(outline_lines)
         IN IF startswith(stripped_line, search)
            THEN section_lines(rest, option, search, TRUE, Append(acc, line))
            ELSE IF in_correct_section /\ EndsSection(option, stripped_line)
            THEN acc
            ELSE IF in_correct_section /\ stripped_line # <<>>
            THEN section_lines(rest, option, search, TRUE, Append(acc, line))
            ELSE section_lines(rest, option, search, in_correct_section, acc)

ErrorPlaceholder == "[ERROR: Could not extract outline for ...]"
NoSection == [form |-> "none", text |-> <<>>]

\* the whole outline in place of a section that is not found
SectionOrWholeOutline(lines, bookOutline) ==
    IF lines # <<>>
    THEN [form |-> "section", text |-> JoinLines(lines)]
    ELSE [form |-> "section", text |-> bookOutline]

\* if section_lines: ... else the placeholder stays
SectionOrPlaceholder(lines, bookOutline) ==
    IF lines # <<>>
    THEN [form |-> "section", text |-> JoinLines(lines)]
    ELSE [form |-> ErrorPlaceholder, text |-> <<>>]

relevant_outline(option, bookOutline, chapter, subchapter) ==
    SectionOrPlaceholder(
        section_lines(splitlines(bookOutline), option,
                      search_str(option, chapter, subchapter), FALSE, <<>>),
        bookOutline)

generatePrompt(option, wordsChapter, wordsSub, bookOutline, lastSub, lastChapter, chapter, subchapter, start_chunk, end_chunk, previous_outline) ==
    IF option = 1
    THEN [option |-> 1, unit |-> <<start_chunk, end_chunk>>,
          target_words |-> 0, outline |-> <<>>,
          relevant_outline |-> NoSection,
          context |-> context_instruction(start_chunk, end_chunk,
                                          previous_outline)]
    ELSE IF option = 2
    THEN [option |-> 2, unit |-> <<chapter, 0>>,
          target_words |-> wordsChapter, outline |-> bookOutline,
          relevant_outline |-> relevant_outline(2, bookOutline, chapter, 0),
          context |-> last_content_context(2, lastSub, lastChapter)]
    ELSE [option |-> 3, unit |-> <<chapter, subchapter>>,
          target_words |-> wordsSub, outline |-> bookOutline,
          relevant_outline |->
              relevant_outline(3, bookOutline, chapter, subchapter),
          context |-> last_content_context(3, lastSub, lastChapter)]

NoPrompt ==
    [option |-> 0, unit |-> <<0, 0>>, target_words |-> 0, outline |-> <<>>,
     relevant_outline |-> NoSection, context |-> NoContext("none")]

\* ------------------------------------------------------------- the answers
\* What getResponse returns: the quota marker, a string with one of the
\* error prefixes, or the generated text.
ErrorPrefixes == {"API Error:", "API Warning:"}
NoResponse == [kind |-> "none", body |-> <<>>]
QuotaResponse == [kind |-> "quota", body |-> <<>>]
ErrorResponse(p) == [kind |-> "error", body |-> <<p>>]
TextResponse(t) == [kind |-> "text", body |-> <<t>>]

\* ------------------------------------------------------------- getResponse
\* What comes back from r.post: an exception of the transport, or an HTTP
\* status with a body that is JSON or not.  Of a JSON body the function
\* reads the "error" object (code, message) and the first candidate
\* (finishReason, content.parts[0].text); a key that is absent is told from
\* its value by a has... field.  Messages are sequences of characters.
QUOTA_EXCEEDED_ERROR_STRING == [prefix |-> "QUOTA_EXCEEDED", detail |-> <<>>]

UpperCase ==
    <<"A", "B", "C", "D", "E", "F", "G", "H", "I", "J", "K", "L", "M", "N",
      "O", "P", "Q", "R", "S", "T", "U", "V", "W", "X", "Y", "Z">>
LowerCase ==
    <<"a", "b", "c", "d", "e", "f", "g", "h", "i", "j", "k", "l", "m", "n",
      "o", "p", "q", "r", "s", "t", "u", "v", "w", "x", "y", "z">>

\* str.lower()
LowerChar(c) ==
    IF \E i \in 1..Len(UpperCase) : UpperCase[i] = c
    THEN LowerCase[CHOOSE i \in 1..Len(UpperCase) : UpperCase[i] = c]
    ELSE c
Lower(s) == [i \in 1..Len(s) |-> LowerChar(s[i])]

\* sub in s
Contains(s, sub) ==
    \E i \in 1..(Len(s) - Len(sub) + 1) : SubSeq(s, i, i + Len(sub) - 1) = sub

WordQuota ==
    <<"q", "u", "o", "t", "a">>
WordRateLimit ==
    <<"r", "a", "t", "e", " ", "l", "i", "m", "i", "t">>
UnknownErrorStructure ==
    <<"U", "n", "k", "n", "o", "w", "n", " ", "e", "r", "r", "o", "r", " ",
      "s", "t", "r", "u", "c", "t", "u", "r", "e">>

\* the messages of the error payloads considered
MsgQuotaExceeded ==
    <<"Q", "u", "o", "t", "a", " ", "e", "x", "c", "e", "e", "d", "e", "d">>
MsgCheckQuota ==
    <<"c", "h", "e", "c", "k", " ", "Q", "U", "O", "T", "A">>
MsgRateLimit ==
    <<"R", "a", "t", "e", " ", "L", "i", "m", "i", "t", " ", "h", "i", "t">>
MsgRateHyphen ==
    <<"r", "a", "t", "e", "-", "l", "i", "m", "i", "t">>
MsgKeyNotValid ==
    <<"A", "P", "I", " ", "k", "e", "y", " ", "n", "o", "t", " ", "v", "a",
      "l", "i", "d">>
MsgOverloaded ==
    <<"o", "v", "e", "r", "l", "o", "a", "d", "e", "d">>
ErrorMessages ==
    {MsgQuotaExceeded, MsgCheckQuota, MsgRateLimit, MsgRateHyphen,
     MsgKeyNotValid, MsgOverloaded}

HttpStatuses == {200, 400, 429, 503}
ErrorCodes == {400, 429, 503}
FinishReasons == {"STOP", "MAX_TOKENS", "SAFETY", "RECITATION", "OTHER"}
ReplyTexts == {TextLong, TextEmpty}

NoPayload == [present |-> FALSE, hasCode |-> FALSE, code |-> 0,
              hasMessage |-> FALSE, message |-> <<>>]
ErrorPayloads ==
    {[present |-> TRUE, hasCode |-> TRUE, code |-> c,
      hasMessage |-> TRUE, message |-> m] : c \in ErrorCodes, m \in ErrorMessages}
    \cup {[present |-> TRUE, hasCode |-> FALSE, code |-> 0,
           hasMessage |-> TRUE, message |-> m] : m \in ErrorMessages}
    \cup {[present |-> TRUE, hasCode |-> TRUE, code |-> c,
           hasMessage |-> FALSE, message |-> <<>>] : c \in ErrorCodes}
    \cup {[present |-> TRUE, hasCode |-> FALSE, code |-> 0,
           hasMessage |-> FALSE, message |-> <<>>]}

\* {} where a part, a content or a candidate is looked for
EmptyPart == [hasText |-> FALSE, text |-> TextEmpty]
EmptyContent == [hasParts |-> FALSE, parts |-> <<>>]
EmptyCandidate ==
    [hasFinish |-> FALSE, finishReason |-> "", hasContent |-> FALSE,
     content |-> EmptyContent]
TextPart(t) == [hasText |-> TRUE, text |-> t]
PartsLists ==
    {<<>>, <<EmptyPart>>}
    \cup {<<TextPart(t)>> : t \in ReplyTexts}
    \cup {<<EmptyPart, TextPart(t)>> : t \in ReplyTexts}
Contents ==
    {EmptyContent} \cup {[hasParts |-> TRUE, parts |-> ps] : ps \in PartsLists}
Candidates ==
    {[hasFinish |-> TRUE, finishReason |-> f, hasContent |-> TRUE,
      content |-> c] : f \in FinishReasons, c \in Contents}
    \cup {[hasFinish |-> FALSE, finishReason |-> "", hasContent |-> TRUE,
           content |-> c] : c \in Contents}
    \cup {[hasFinish |-> TRUE, finishReason |-> f, hasContent |-> FALSE,
           content |-> EmptyContent] : f \in FinishReasons}
    \cup {EmptyCandidate}
NoCandidates == [has |-> FALSE, list |-> <<>>]
CandidateLists ==
    {NoCandidates, [has |-> TRUE, list |-> <<>>]}
    \cup {[has |-> TRUE, list |-> <<c>>] : c \in Candidates}

NoReply ==
    [transport |-> "none", status |-> 0, json |-> FALSE, error |-> NoPayload,
     candidates |-> NoCandidates]
TransportFailure(what) == [NoReply EXCEPT !.transport = what]
Replies ==
    {TransportFailure(what) : what \in {"timeout", "failed", "unexpected"}}
    \cup {[NoReply EXCEPT !.transport = "ok", !.status = st] : st \in HttpStatuses}
    \cup {[NoReply EXCEPT !.transport = "ok", !.status = st, !.json = TRUE,
                          !.error = e] : st \in HttpStatuses, e \in ErrorPayloads}
    \cup {[NoReply EXCEPT !.transport = "ok", !.status = st, !.json = TRUE,
                          !.candidates = cs] :
            st \in HttpStatuses, cs \in CandidateLists}

\* the strings returned: a prefix the callers test, and what follows it
Returned(prefix, detail) == [prefix |-> prefix, detail |-> detail]
ReturnedText(message) == Returned("", <<message>>)

\* status_code == 429 or "quota" in error_message.lower()
\*                    or "rate limit" in error_message.lower()
QuotaCheck(status_code, error_message) ==
    \/ status_code = 429
    \/ Contains(Lower(error_message), WordQuota)
    \/ Contains(Lower(error_message), WordRateLimit)

\* if 'error' in data
ErrorPayloadResult(status, error_info) ==
    LET status_code == IF error_info.hasCode THEN error_info.code ELSE status
        error_message == IF error_info.hasMessage THEN error_info.message
                         ELSE UnknownErrorStructure
    IN  IF QuotaCheck(status_code, error_message)
        THEN QUOTA_EXCEEDED_ERROR_STRING
        ELSE Returned("API Error:", <<status_code, error_message>>)

\* content.get("parts", [{}]) of candidate.get("content", {})
PartsOf(candidate) ==
    LET content == IF candidate.hasContent THEN candidate.content
                   ELSE EmptyContent
    IN  IF content.hasParts THEN content.parts ELSE <<EmptyPart>>

\* parts and "text" in parts[0]
HasText(parts) == parts # <<>> /\ parts[1].hasText

\* a finish reason that lets the text through, whatever it is
IsNaturalFinishAny(finish_reason) == TRUE
\* finish_reason in ["STOP", "MAX_TOKENS"]
IsNaturalFinish(finish_reason) == finish_reason \in {"STOP", "MAX_TOKENS"}

\* if response.status_code == 200
SuccessResult(candidates) ==
    IF candidates.has /\ candidates.list = <<>>
    THEN Returned("Error parsing response:", <<"IndexError">>)
    ELSE LET candidate == IF candidates.has THEN candidates.list[1]
                          ELSE EmptyCandidate
             finish_reason == IF candidate.hasFinish
                              THEN candidate.finishReason ELSE "UNKNOWN"
             parts == PartsOf(candidate)
         IN  IF ~IsNaturalFinish(finish_reason)
             THEN IF HasText(parts)
                  THEN Returned("API Warning:",
                                <<"Generation finished unexpectedly",
                                  finish_reason>>)
                  ELSE Returned("API Error:",
                                <<"Generation stopped", finish_reason>>)
             ELSE IF HasText(parts)
                  THEN ReturnedText(parts[1].text)
                  ELSE Returned("API Error:", <<"No text content found">>)

getResponse(reply) ==
    IF reply.transport = "timeout"
    THEN Returned("API Error:", <<"Request Timeout">>)
    ELSE IF reply.transport = "failed"
    THEN Returned("Request failed:", <<>>)
    ELSE IF reply.transport = "unexpected"
    THEN Returned("Unexpected Error:", <<>>)
    ELSE IF ~reply.json
    THEN IF reply.status = 429
         THEN QUOTA_EXCEEDED_ERROR_STRING
         ELSE Returned("API Error:", <<reply.status, "Non-JSON Response">>)
    ELSE IF reply.error.present
    THEN ErrorPayloadResult(reply.status, reply.error)
    ELSE IF reply.status = 200
    THEN SuccessResult(reply.candidates)
    ELSE IF reply.status = 429
    THEN QUOTA_EXCEEDED_ERROR_STRING
    ELSE Returned("API Error:", <<"Status Code", reply.status>>)

\* the prefixes tested, "Error parsing" left out
CallerErrorPrefixesShort ==
    {"API Error:", "Request failed:", "Unexpected Error:", "API Warning:"}
\* what the callers make of the string returned
CallerErrorPrefixes ==
    {"API Error:", "Error parsing response:", "Request failed:",
     "Unexpected Error:", "API Warning:"}
ResponseOf(returned) ==
    IF returned = QUOTA_EXCEEDED_ERROR_STRING THEN QuotaResponse
    ELSE IF returned.prefix \in CallerErrorPrefixes
    THEN [kind |-> "error", body |-> <<returned.prefix>> \o returned.detail]
    ELSE [kind |-> "text", body |-> returned.detail]

\* What the user types at the credential prompt: nothing, or a key, of which
\* the length and the presence of "AI" are what the program looks at.
InitialKey == [id |-> 0, len |-> 39, hasAI |-> TRUE]
KeyEntries ==
    {[id |-> 1, len |-> 39, hasAI |-> TRUE],
     [id |-> 2, len |-> 39, hasAI |-> FALSE],
     [id |-> 3, len |-> 30, hasAI |-> TRUE],
     [id |-> 4, len |-> 0, hasAI |-> FALSE]}
\* a key of any length
ValidKeyAnyLength(k) == k.hasAI
ValidKey(k) == k.len > 30 /\ k.hasAI

\* ------------------------------------------- the queues of gui.py
\* gui_queue carries the worker's messages to the UI thread; a request to
\* ask carries the result_queue made for it, here the number of that queue
\* in result_queues.  dialog is the message process_queue has taken and is
\* showing, result_queue the queue the worker is blocked on (0: none).
NoMessage == [type |-> "none", rq |-> 0]
AskMessage(type, rq) == [type |-> type, rq |-> rq]
ShowErrorMessage == [type |-> "showerror", rq |-> 0]
NoGui ==
    [gui_queue |-> <<>>, result_queues |-> <<>>, dialog |-> NoMessage,
     result_queue |-> 0]

\* The window of gui.py: the state of the Generate button, whether
\* start_generation_thread has disabled the controls and not yet started
\* the thread, the threads running run_generation_logic, and the
\* generation_finished messages put since the last thread was started.
ShowInfoMessage == [type |-> "showinfo", rq |-> 0]
FinishedMessage(data) == [type |-> "generation_finished", rq |-> 0, data |-> data]
NoApp == [button |-> "normal", starting |-> FALSE, workers |-> 0, sent |-> 0]

\* ---------------------------------------------------------------- the state
VARIABLES
    ui,                             \* "cli": final.py, "gui": gui.py
    I_numberOfChapters, I_wordsPerChapter, regenOnLowWords,
    I_apiLevel,                     \* 0: free tier, 1: paid tier
    waitTime,                       \* in half seconds
    apiKey,
    numberOfSubchapters, wordsPerSubchapter, total_outline_items,
    G_bookOutline, outline_generated_successfully,
    outline_regeneration_requested, outline_generation_failed,
    full_outline_parts, previous_outline_context, chunk_index,
    phase,                          \* the attempt loop: single, chunk, chapter, sub
    attempt, unit_generated_successfully,
    currentChapter, currentSubChapter, sub_chap_num,
    lastGeneratedChapter_Full, lastGeneratedSubchapter_Full,
    current_chapter_content_parts, totalGeneratedWords,
    pc,                             \* where the worker is
    prompt, response,               \* the last prompt sent, the last answer
    out,                            \* what was written to the output
    exitReason,
    faults,                         \* units with an answer not the ordinary one
    h                               \* history of the run, for the properties

inputs ==
    <<ui, I_numberOfChapters, I_wordsPerChapter, regenOnLowWords,
      I_apiLevel, waitTime>>
derived == <<numberOfSubchapters, wordsPerSubchapter, total_outline_items>>
outlineVars ==
    <<G_bookOutline, outline_generated_successfully,
      outline_regeneration_requested, outline_generation_failed,
      full_outline_parts, previous_outline_context, chunk_index>>
loopVars == <<phase, attempt, unit_generated_successfully>>
contentVars ==
    <<currentChapter, currentSubChapter, sub_chap_num,
      lastGeneratedChapter_Full,
      lastGeneratedSubchapter_Full, current_chapter_content_parts,
      totalGeneratedWords>>
vars ==
    <<inputs, apiKey, derived, outlineVars, loopVars, contentVars, pc,
      prompt, response, out, exitReason, faults, h>>

WordsChoices == {1000, 2000}

InitHistory ==
    [unitFaulty |-> FALSE,          \* the unit in progress is counted in faults
     unitFailed |-> FALSE,          \* the unit in progress ended Failed
     quotaRetry |-> FALSE,          \* a replacement key was just accepted
     quotaPrompt |-> NoPrompt,      \* the prompt that hit the quota error
     quotaAttempt |-> 0,
     abandoned |-> FALSE,           \* the credential prompt returned none
     retryOffered |-> FALSE,        \* the retry choice was offered this pass
     regenerated |-> FALSE,         \* a regeneration was asked for
     frozen |-> FALSE,              \* regeneration was declined
     frozenOutline |-> <<>>,
     passUnits |-> <<>>,            \* the outline units begun in this pass
     passAccepted |-> <<>>,         \* the outline answers accepted in this pass
     runs |-> 1,                    \* sessions started
     firstDerived |-> <<0, 0, 0>>,  \* the derived values of the first one
     slept |-> 0,                   \* the delay slept after the last answer
     documentFailed |-> FALSE,      \* the final document could not be made
     reply |-> NoReply,             \* what r.post brought back, where looked at
     gui |-> NoGui,                 \* the queues of gui.py, where looked at
     calls |-> 0,                   \* calls made for the unit, where counted
     keys |-> 0,                    \* keys accepted during the unit, likewise
     callKey |-> InitialKey,        \* the key the last call was made with
     entry |-> InitialKey,          \* what was last typed at the key prompt
     accepted |-> InitialKey,       \* the entry last taken for the key
     app |-> NoApp]                 \* the window of gui.py, where looked at

\* the history at the start of a unit, after an answer, after an answer
\* other than the ordinary one, after the unit has failed
NewUnit(hist) ==
    [hist EXCEPT !.unitFailed = FALSE, !.unitFaulty = FALSE, !.calls = 0,
                 !.keys = 0]
Answered(hist) ==
    [hist EXCEPT !.quotaRetry = FALSE, !.quotaPrompt = NoPrompt,
                 !.quotaAttempt = 0]
FaultyUnit(hist) == [Answered(hist) EXCEPT !.unitFaulty = TRUE]
FailedUnit(hist) == [FaultyUnit(hist) EXCEPT !.unitFailed = TRUE]

\* waitTime = 5 for the free tier, 0.5 for the paid tier
WaitTimeFor(level) == IF level = 0 THEN FreeTierWait ELSE PaidTierWait

\* the tier is asked once, with the other inputs, and waitTime set from it
Tier(levels) == I_apiLevel \in levels /\ waitTime = WaitTimeFor(I_apiLevel)

\* the retry that follows an error result waiting no longer than the others
DelayAfterErrorSingle(wait) == wait

\* sleep(waitTime * 2) before the retry that follows an error result
DelayAfterError(wait) == wait * 2

\* sleep(waitTime) after an accepted unit and before a low-word retry
DelayAfterText(wait) == wait

\* the history after a sleep
Slept(hist, delay) == [hist EXCEPT !.slept = delay]

\* the state when generation starts, the inputs being given
StartedAt(position, hist) ==
    /\ apiKey = InitialKey
    /\ numberOfSubchapters = 0
    /\ wordsPerSubchapter = 0
    /\ total_outline_items = 0
    /\ G_bookOutline = <<>>
    /\ outline_generated_successfully = FALSE
    /\ outline_regeneration_requested = FALSE
    /\ outline_generation_failed = FALSE
    /\ full_outline_parts = <<>>
    /\ previous_outline_context = <<>>
    /\ chunk_index = 0
    /\ phase = "none"
    /\ attempt = 0
    /\ unit_generated_successfully = FALSE
    /\ currentChapter = 0
    /\ currentSubChapter = 0
    /\ sub_chap_num = 0
    /\ lastGeneratedChapter_Full = <<>>
    /\ lastGeneratedSubchapter_Full = <<>>
    /\ current_chapter_content_parts = <<>>
    /\ totalGeneratedWords = 0
    /\ pc = position
    /\ prompt = NoPrompt
    /\ response = NoResponse
    /\ out = <<>>
    /\ exitReason = "none"
    /\ faults = 0
    /\ h = hist

Started(hist) == StartedAt("start", hist)

Init ==
    /\ ui \in {"cli", "gui"}
    /\ I_numberOfChapters \in 1..MaxChapters
    /\ I_wordsPerChapter \in WordsChoices
    /\ regenOnLowWords \in BOOLEAN
    /\ Tier({0})
    /\ Started(InitHistory)

\* ------------------------------------------------------------------- exits
\* sys.exit(1) in final.py, an exception caught at the end of
\* run_generation_logic in gui.py
Exit(why) == pc' = "exit" /\ exitReason' = why

\* ------------------------------------------------------- derived variables
CalcDerived ==
    /\ pc = "start"
    /\ numberOfSubchapters' = SubchaptersFor(I_wordsPerChapter)
    /\ wordsPerSubchapter' = WordsPerSubFor(I_wordsPerChapter)
    /\ total_outline_items' =
           OutlineItemsFor(I_numberOfChapters,
                           SubchaptersFor(I_wordsPerChapter))
    /\ pc' = "outline_top"
    /\ h' = [h EXCEPT !.firstDerived =
                          IF h.runs = 1 THEN derived' ELSE h.firstDerived]
    /\ UNCHANGED <<inputs, apiKey, outlineVars, loopVars, contentVars,
                   prompt, response, out, exitReason, faults>>

\* The program is run again with the same inputs: the globals of final.py,
\* the gen_state of gui.py, start as they did.
SessionStart ==
    /\ pc # "start"
    /\ h.runs < MaxRuns
    /\ apiKey' = InitialKey
    /\ numberOfSubchapters' = 0
    /\ wordsPerSubchapter' = 0
    /\ total_outline_items' = 0
    /\ G_bookOutline' = <<>>
    /\ outline_generated_successfully' = FALSE
    /\ outline_regeneration_requested' = FALSE
    /\ outline_generation_failed' = FALSE
    /\ full_outline_parts' = <<>>
    /\ previous_outline_context' = <<>>
    /\ chunk_index' = 0
    /\ phase' = "none"
    /\ attempt' = 0
    /\ unit_generated_successfully' = FALSE
    /\ currentChapter' = 0
    /\ currentSubChapter' = 0
    /\ sub_chap_num' = 0
    /\ lastGeneratedChapter_Full' = <<>>
    /\ lastGeneratedSubchapter_Full' = <<>>
    /\ current_chapter_content_parts' = <<>>
    /\ totalGeneratedWords' = 0
    /\ pc' = "start"
    /\ prompt' = NoPrompt
    /\ response' = NoResponse
    /\ out' = <<>>
    /\ exitReason' = "none"
    /\ faults' = 0
    /\ h' = [InitHistory EXCEPT !.runs = h.runs + 1,
                            !.firstDerived = h.firstDerived,
                            !.app = h.app, !.gui = h.gui]
    /\ UNCHANGED inputs

wordsPerChapter_gen == Inflate(I_wordsPerChapter)
wordsPerSubchapter_gen ==
    IF wordsPerSubchapter > 0 THEN Inflate(wordsPerSubchapter) ELSE 0

\* ------------------------------------------------------- outline generation
num_chunks == CeilDiv(I_numberOfChapters, CHAPTERS_PER_OUTLINE_CHUNK)
start_chap == chunk_index * CHAPTERS_PER_OUTLINE_CHUNK + 1
\* the end of the chunk not held to the number of chapters
end_chap_uncapped == (chunk_index + 1) * CHAPTERS_PER_OUTLINE_CHUNK
end_chap ==
    Min((chunk_index + 1) * CHAPTERS_PER_OUTLINE_CHUNK, I_numberOfChapters)

\* a pass that keeps the chunks of the pass before
KeptOutlineParts(parts) == parts

\* full_outline_parts = [] at the top of the outline loop
FreshOutlineParts(parts) == <<>>

\* chunks in place of a single call from the threshold on
UseChunksFromThreshold(items) == items >= OUTLINE_CHUNK_THRESHOLD

\* if total_outline_items > OUTLINE_CHUNK_THRESHOLD
UseChunks(items) == items > OUTLINE_CHUNK_THRESHOLD

\* the top of the outline while loop: everything of the pass starts empty
OutlineLoopTop ==
    /\ pc = "outline_top"
    /\ outline_regeneration_requested' = FALSE
    /\ G_bookOutline' = <<>>
    /\ full_outline_parts' = FreshOutlineParts(full_outline_parts)
    /\ previous_outline_context' = <<>>
    /\ outline_generation_failed' = FALSE
    /\ IF UseChunks(total_outline_items)
       THEN /\ phase' = "chunk"
            /\ chunk_index' = 0
            /\ pc' = "chunk_for"
            /\ UNCHANGED <<attempt, unit_generated_successfully>>
       ELSE /\ phase' = "single"
            /\ attempt' = 1
            /\ unit_generated_successfully' = FALSE
            /\ pc' = "attempt_top"
            /\ UNCHANGED chunk_index
    /\ h' = [NewUnit(h) EXCEPT !.retryOffered = FALSE,
                               !.passUnits = IF phase' = "chunk" THEN <<>>
                                             ELSE << <<0, 0>> >>,
                               !.passAccepted = <<>>]
    /\ UNCHANGED <<inputs, apiKey, derived, outline_generated_successfully,
                   contentVars, prompt, response, out, exitReason, faults>>

\* for chunk_index in range(num_chunks)
ChunkForNext ==
    /\ pc = "chunk_for"
    /\ IF chunk_index < num_chunks
       THEN /\ attempt' = 1
            /\ unit_generated_successfully' = FALSE
            /\ pc' = "attempt_top"
            /\ h' = [NewUnit(h) EXCEPT
                         !.passUnits = Append(@, <<start_chap, end_chap>>)]
       ELSE /\ pc' = "chunks_done"
            /\ UNCHANGED <<attempt, unit_generated_successfully, h>>
    /\ UNCHANGED <<inputs, apiKey, derived, outlineVars, phase, contentVars,
                   prompt, response, out, exitReason, faults>>

\* after the attempt loop of a chunk: leave the chunk loop or go on
ChunkLoopEnd ==
    /\ pc = "chunk_loop_end"
    /\ IF outline_generation_failed \/ ~unit_generated_successfully
       THEN pc' = "chunks_done" /\ UNCHANGED chunk_index
       ELSE pc' = "chunk_for" /\ chunk_index' = chunk_index + 1
    /\ UNCHANGED <<inputs, apiKey, derived, G_bookOutline,
                   outline_generated_successfully,
                   outline_regeneration_requested, outline_generation_failed,
                   full_outline_parts, previous_outline_context, loopVars,
                   contentVars, prompt, response, out, exitReason, faults, h>>

\* Where a finished pass goes.  gui.py asks to retry after any failed pass;
\* final.py asks only inside the single-call branch.
AfterPass(front, mode, failed) ==
    IF failed /\ (front = "gui" \/ mode = "single")
    THEN "retry_prompt"
    ELSE "post_outline"

OfferRetry(hist, next) ==
    IF next = "retry_prompt" THEN [hist EXCEPT !.retryOffered = TRUE] ELSE hist

\* assembling whatever chunks there are
MayAssembleAlways(failed) == TRUE

\* if not outline_generation_failed, after the chunk loop
MayAssemble(failed) == ~failed

AssembleOutline ==
    /\ pc = "chunks_done"
    /\ IF MayAssemble(outline_generation_failed)
       THEN /\ G_bookOutline' = JoinOutline(full_outline_parts)
            /\ outline_generated_successfully' = TRUE
       ELSE UNCHANGED <<G_bookOutline, outline_generated_successfully>>
    /\ pc' = AfterPass(ui, phase, outline_generation_failed)
    /\ h' = OfferRetry(h, pc')
    /\ UNCHANGED <<inputs, apiKey, derived, outline_regeneration_requested,
                   outline_generation_failed, full_outline_parts,
                   previous_outline_context, chunk_index, loopVars,
                   contentVars, prompt, response, out, exitReason, faults>>

SingleLoopEnd ==
    /\ pc = "single_loop_end"
    /\ pc' = AfterPass(ui, phase, outline_generation_failed)
    /\ h' = OfferRetry(h, pc')
    /\ UNCHANGED <<inputs, apiKey, derived, outlineVars, loopVars,
                   contentVars, prompt, response, out, exitReason, faults>>

\* the answer to "Retry outline generation?"; hist is the history when the
\* answer has come
RetryAnswerFrom(yes, hist) ==
    /\ pc = "retry_prompt"
    /\ IF yes
       THEN /\ outline_generated_successfully' = FALSE
            /\ pc' = "outline_top"
            /\ UNCHANGED exitReason
       ELSE /\ Exit("outline_refused")
            /\ UNCHANGED outline_generated_successfully
    /\ UNCHANGED <<inputs, apiKey, derived, G_bookOutline,
                   outline_regeneration_requested, outline_generation_failed,
                   full_outline_parts, previous_outline_context, chunk_index,
                   loopVars, contentVars, prompt, response, out, faults>>
    /\ h' = hist

RetryAnswer(yes) == RetryAnswerFrom(yes, h)

\* Where the loop goes with the outline it has: the preview and the
\* regeneration question, or with no outline (final.py, and no regeneration
\* asked for before) sys.exit(1), or the loop again.
AfterOutline(front, generated, regeneration_requested) ==
    IF generated THEN "regen_prompt"
    ELSE IF front = "cli" /\ ~regeneration_requested THEN "exit"
    ELSE "outline_top"

\* post-generation handling: preview and ask, or (final.py) give up
PostOutline ==
    /\ pc = "post_outline"
    /\ IF AfterOutline(ui, outline_generated_successfully,
                       outline_regeneration_requested) = "exit"
       THEN Exit("outline_fatal")
       ELSE /\ pc' = AfterOutline(ui, outline_generated_successfully,
                                  outline_regeneration_requested)
            /\ UNCHANGED exitReason
    /\ UNCHANGED <<inputs, apiKey, derived, outlineVars, loopVars,
                   contentVars, prompt, response, out, faults, h>>

\* the answer to "Regenerate outline if not satisfactory?"
RegenAnswerFrom(yes, hist) ==
    /\ pc = "regen_prompt"
    /\ IF yes
       THEN /\ outline_regeneration_requested' = TRUE
            /\ outline_generated_successfully' = FALSE
            /\ pc' = "outline_top"
            /\ h' = [hist EXCEPT !.regenerated = TRUE]
       ELSE /\ pc' = "write_header"
            /\ h' = [hist EXCEPT !.frozen = TRUE,
                                 !.frozenOutline = G_bookOutline]
            /\ UNCHANGED <<outline_regeneration_requested,
                           outline_generated_successfully>>
    /\ UNCHANGED <<inputs, apiKey, derived, G_bookOutline,
                   outline_generation_failed, full_outline_parts,
                   previous_outline_context, chunk_index, loopVars,
                   contentVars, prompt, response, out, exitReason, faults>>

RegenAnswer(yes) == RegenAnswerFrom(yes, h)

\* ---------------------------------------------------------- the attempt loop
\* One loop in the source for each kind of unit (single-call outline, outline
\* chunk, sub-chapter, chapter); phase says which one is running.
InOutline == phase \in {"single", "chunk"}
InContent == phase \in {"sub", "chapter"}

CurrentPrompt ==
    IF phase = "chunk"
    THEN generatePrompt(1, wordsPerChapter_gen, wordsPerSubchapter_gen, <<>>,
                        <<>>, <<>>, 0, 0, start_chap, end_chap,
                        previous_outline_context)
    ELSE IF phase = "single"
    THEN generatePrompt(1, wordsPerChapter_gen, wordsPerSubchapter_gen, <<>>,
                        <<>>, <<>>, 0, 0, 0, 0, <<>>)
    ELSE IF phase = "sub"
    THEN generatePrompt(3, wordsPerChapter_gen, wordsPerSubchapter_gen,
                        G_bookOutline, lastGeneratedSubchapter_Full,
                        lastGeneratedChapter_Full, currentChapter,
                        currentSubChapter, 0, 0, <<>>)
    ELSE generatePrompt(2, wordsPerChapter_gen, 0, G_bookOutline, <<>>,
                        lastGeneratedChapter_Full, currentChapter, 0, 0, 0,
                        <<>>)

\* the loop without its cap on the attempts
LoopConditionNoCap(a, ok) == ~ok

\* while attempt <= MAX_GENERATION_ATTEMPTS and not ..._generated_successfully
LoopCondition(a, ok) == a <= MAX_GENERATION_ATTEMPTS /\ ~ok

\* the statement after the attempt loop, where break also lands
LoopEnd ==
    IF phase = "chunk" THEN "chunk_loop_end"
    ELSE IF phase = "single" THEN "single_loop_end"
    ELSE "unit_loop_end"

\* build the prompt and send it; hist is the history with the call made
CallAPIFrom(hist) ==
    /\ pc = "attempt_top"
    /\ LoopCondition(attempt, unit_generated_successfully)
    /\ prompt' = CurrentPrompt
    /\ pc' = "calling"
    /\ h' = hist
    /\ UNCHANGED <<inputs, apiKey, derived, outlineVars, loopVars,
                   contentVars, response, out, exitReason, faults>>

CallAPI == CallAPIFrom(h)

AttemptLoopExit ==
    /\ pc = "attempt_top"
    /\ ~LoopCondition(attempt, unit_generated_successfully)
    /\ pc' = LoopEnd
    /\ UNCHANGED <<inputs, apiKey, derived, outlineVars, loopVars,
                   contentVars, prompt, response, out, exitReason, faults, h>>

\* an answer other than the ordinary one is within the bound
MayFault == h.unitFaulty \/ faults < MaxFaults
FaultsAfter == IF h.unitFaulty THEN faults ELSE faults + 1

\* --------------------------------------------------------------- quota error
RespQuota ==
    /\ pc = "calling"
    /\ MayFault
    /\ faults' = FaultsAfter
    /\ response' = QuotaResponse
    /\ pc' = "quota_prompt"
    /\ h' = Slept(FaultyUnit(h), 0)
    /\ UNCHANGED <<inputs, apiKey, derived, outlineVars, loopVars,
                   contentVars, prompt, out, exitReason>>

\* a quota retry that consumes an attempt
AttemptAfterNewKeyCounted(a) == a + 1

\* the attempt number with which the loop goes on after a new key
AttemptAfterNewKey(a) == a

\* handle_quota_error and the branch that called it; entry is what the user
\* typed, stripped
QuotaAnswerFrom(entry, hist) ==
    /\ pc = "quota_prompt"
    /\ IF entry.len = 0
       THEN \* no key: the outline pass is failed, content generation exits
            /\ IF InOutline
               THEN /\ outline_generation_failed' = TRUE
                    /\ pc' = LoopEnd
                    /\ UNCHANGED exitReason
               ELSE /\ Exit("quota_abandoned")
                    /\ UNCHANGED outline_generation_failed
            /\ h' = [hist EXCEPT !.abandoned = TRUE, !.unitFailed = TRUE]
            /\ UNCHANGED <<apiKey, attempt>>
       ELSE IF ValidKey(entry)
       THEN /\ apiKey' = entry
            /\ attempt' = AttemptAfterNewKey(attempt)
            /\ pc' = "attempt_top"
            /\ h' = [hist EXCEPT !.quotaRetry = TRUE, !.quotaPrompt = prompt,
                                 !.quotaAttempt = attempt,
                                 !.slept = NewKeyWait]
            /\ UNCHANGED <<outline_generation_failed, exitReason>>
       ELSE \* "Invalid API key format. Please try again."
            /\ h' = hist
            /\ UNCHANGED <<apiKey, attempt, pc, outline_generation_failed,
                           exitReason>>
    /\ UNCHANGED <<inputs, derived, G_bookOutline,
                   outline_generated_successfully,
                   outline_regeneration_requested, full_outline_parts,
                   previous_outline_context, chunk_index, phase,
                   unit_generated_successfully, contentVars, prompt,
                   response, out, faults>>

QuotaAnswer(entry) == QuotaAnswerFrom(entry, h)

\* ------------------------------------------------------------- error result
ErrorMarker(resp) ==
    [kind |-> "error", unit |-> <<currentChapter,
                                  IF phase = "sub" THEN currentSubChapter ELSE 0>>,
     body |-> resp.body]

\* the marker written and the attempt not counted
AttemptAfterMarkerSame(a) == a
\* final.py: attempt += 1; continue, after the marker as after any error
AttemptAfterMarker(a) == a + 1

\* the last attempt taken to be one later
IsLastAttemptLate(a) == a = MAX_GENERATION_ATTEMPTS + 1
IsLastAttempt(a) == a = MAX_GENERATION_ATTEMPTS

\* the branch for "API Error:", "Error parsing", "Request failed:",
\* "Unexpected Error:" and "API Warning:"; written says whether writeToFile
\* succeeds
RespError(prefix, written) ==
    /\ pc = "calling"
    /\ MayFault
    /\ faults' = FaultsAfter
    /\ response' = ErrorResponse(prefix)
    /\ IF IsLastAttempt(attempt)
       THEN IF InOutline
            THEN /\ outline_generation_failed' = TRUE
                 /\ pc' = LoopEnd
                 /\ h' = Slept(FailedUnit(h), 0)
                 /\ UNCHANGED <<attempt, out, exitReason>>
            ELSE IF written
            THEN /\ out' = Append(out, ErrorMarker(response'))
                 \* final.py goes on to attempt += 1; continue, gui.py breaks
                 /\ IF ui = "cli"
                    THEN /\ attempt' = AttemptAfterMarker(attempt)
                         /\ pc' = "attempt_top"
                    ELSE pc' = LoopEnd /\ UNCHANGED attempt
                 /\ h' = Slept(FailedUnit(h), 0)
                 /\ UNCHANGED <<outline_generation_failed, exitReason>>
            ELSE /\ Exit("write_failure")
                 /\ h' = Slept(FaultyUnit(h), 0)
                 /\ UNCHANGED <<attempt, out, outline_generation_failed>>
       ELSE /\ attempt' = attempt + 1
            /\ pc' = "attempt_top"
            /\ h' = Slept(FaultyUnit(h), DelayAfterError(waitTime))
            /\ UNCHANGED <<out, outline_generation_failed, exitReason>>
    /\ UNCHANGED <<inputs, apiKey, derived, G_bookOutline,
                   outline_generated_successfully,
                   outline_regeneration_requested, full_outline_parts,
                   previous_outline_context, chunk_index, phase,
                   unit_generated_successfully, contentVars, prompt>>

\* ------------------------------------------------------ an outline is returned
\* the accepted chunk put in front of the others
PartsWithInFront(parts, chunk_text) == <<chunk_text>> \o parts

\* full_outline_parts.append(chunk_text)
PartsWith(parts, chunk_text) == Append(parts, chunk_text)

RespOutlineText(text) ==
    /\ pc = "calling"
    /\ InOutline
    /\ IF text = OutlinePlain
       THEN UNCHANGED faults
       ELSE MayFault /\ faults' = FaultsAfter
    /\ response' = TextResponse(text)
    /\ IF phase = "chunk"
       THEN /\ full_outline_parts' =
                   PartsWith(full_outline_parts, removeBrackets(text))
            /\ previous_outline_context' = removeBrackets(text)
            /\ UNCHANGED <<G_bookOutline, outline_generated_successfully>>
       ELSE /\ G_bookOutline' = removeBrackets(text)
            /\ outline_generated_successfully' = TRUE
            /\ UNCHANGED <<full_outline_parts, previous_outline_context>>
    /\ unit_generated_successfully' = TRUE
    /\ pc' = "attempt_top"
    /\ h' = [(IF text = OutlinePlain THEN Answered(h) ELSE FaultyUnit(h))
                 EXCEPT !.passAccepted =
                            Append(@, [unit |-> prompt.unit, text |-> text]),
                        !.slept = DelayAfterText(waitTime)]
    /\ UNCHANGED <<inputs, apiKey, derived, outline_regeneration_requested,
                   outline_generation_failed, chunk_index, phase, attempt,
                   contentVars, prompt, out, exitReason>>

\* ------------------------------------------------------- content generation
HeaderRecord == [kind |-> "header", unit |-> <<0, 0>>, body |-> G_bookOutline]
ChapterHeader(c) == [kind |-> "chapter_header", unit |-> <<c, 0>>, body |-> <<>>]
TextRecord(t) ==
    [kind |-> "text", unit |-> <<currentChapter,
                                 IF phase = "sub" THEN currentSubChapter ELSE 0>>,
     body |-> <<t>>]

\* the header and the outline are written, the content state is reset
WriteHeader(written) ==
    /\ pc = "write_header"
    /\ IF written
       THEN /\ out' = <<HeaderRecord>>
            /\ totalGeneratedWords' = 0
            /\ lastGeneratedChapter_Full' = <<>>
            /\ pc' = "chapter_for"
            /\ UNCHANGED exitReason
       ELSE /\ Exit("write_failure")
            /\ UNCHANGED <<out, totalGeneratedWords,
                           lastGeneratedChapter_Full>>
    /\ UNCHANGED <<inputs, apiKey, derived, outlineVars, loopVars,
                   currentChapter, currentSubChapter, sub_chap_num,
                   lastGeneratedSubchapter_Full,
                   current_chapter_content_parts, prompt, response, faults,
                   h>>

\* for chap_num in range(1, I_numberOfChapters + 1), up to the unit loop
\* pdf_success after the chapters: generate_pdf_from_elements_gui in
\* gui.py, where made says whether the document can be made; final.py makes
\* no document
PdfSuccess(front, made) == front = "cli" \/ made

\* the final summary: "Generation Complete!", and in gui.py the "Success"
\* dialog and ("generation_finished", True), whatever pdf_success is
FinalReport(pdf_success) == "finished"

MoreChaptersButLast(done, chapters) == done < chapters - 1

\* range(1, I_numberOfChapters + 1) has a next chapter
MoreChapters(done, chapters) == done < chapters

ChapterForNext(written) ==
    /\ pc = "chapter_for"
    /\ IF MoreChapters(currentChapter, I_numberOfChapters)
       THEN /\ currentChapter' = currentChapter + 1
            /\ IF written
               THEN /\ out' = Append(out, ChapterHeader(currentChapter'))
                    /\ lastGeneratedSubchapter_Full' = <<>>
                    /\ current_chapter_content_parts' = <<>>
                    /\ IF numberOfSubchapters > 0
                       THEN /\ phase' = "sub"
                            /\ sub_chap_num' = 0
                            /\ pc' = "sub_for"
                            /\ UNCHANGED <<attempt,
                                           unit_generated_successfully>>
                       ELSE /\ phase' = "chapter"
                            /\ attempt' = 1
                            /\ unit_generated_successfully' = FALSE
                            /\ pc' = "attempt_top"
                            /\ UNCHANGED sub_chap_num
                    /\ UNCHANGED exitReason
               ELSE /\ Exit("write_failure")
                    /\ UNCHANGED <<out, lastGeneratedSubchapter_Full,
                                   current_chapter_content_parts, loopVars,
                                   sub_chap_num>>
       ELSE /\ pc' = "done"
            /\ exitReason' = FinalReport(PdfSuccess(ui, written))
            /\ UNCHANGED <<currentChapter, out, lastGeneratedSubchapter_Full,
                           current_chapter_content_parts, loopVars,
                           sub_chap_num>>
    /\ h' = [NewUnit(h) EXCEPT
                 !.documentFailed = pc' = "done" /\ ~PdfSuccess(ui, written)]
    /\ UNCHANGED <<inputs, apiKey, derived, outlineVars, currentSubChapter,
                   lastGeneratedChapter_Full, totalGeneratedWords, prompt,
                   response, faults>>

\* the last sub-chapter alone
ChapterContextOfLast(parts) ==
    IF parts = <<>> THEN <<>> ELSE Join(<<parts[Len(parts)]>>)

\* the chapter-level context after the sub-chapters of a chapter
ChapterContextOf(parts) == Join(parts)

SubAfterSkipping(done) == done + 2

\* the next value of range(1, numberOfSubchapters + 1)
SubAfter(done) == done + 1

\* for sub_chap_num in range(1, numberOfSubchapters + 1), and what follows
\* the loop
SubForNext ==
    /\ pc = "sub_for"
    /\ IF sub_chap_num < numberOfSubchapters
       THEN /\ sub_chap_num' = SubAfter(sub_chap_num)
            /\ currentSubChapter' = sub_chap_num'
            /\ attempt' = 1
            /\ unit_generated_successfully' = FALSE
            /\ pc' = "attempt_top"
            /\ h' = NewUnit(h)
            /\ UNCHANGED lastGeneratedChapter_Full
       ELSE /\ lastGeneratedChapter_Full' =
                   ChapterContextOf(current_chapter_content_parts)
            /\ pc' = "chapter_for"
            /\ UNCHANGED <<sub_chap_num, currentSubChapter, attempt,
                           unit_generated_successfully, h>>
    /\ UNCHANGED <<inputs, apiKey, derived, outlineVars, phase,
                   currentChapter, lastGeneratedSubchapter_Full,
                   current_chapter_content_parts, totalGeneratedWords,
                   prompt, response, out, exitReason, faults>>

\* after the attempt loop of a chapter or of a sub-chapter
UnitLoopEnd ==
    /\ pc = "unit_loop_end"
    /\ pc' = IF phase = "sub" THEN "sub_for" ELSE "chapter_for"
    /\ UNCHANGED <<inputs, apiKey, derived, outlineVars, loopVars,
                   contentVars, prompt, response, out, exitReason, faults, h>>

target_word_count_tolerance_pct == 20
\* int(target * (1 - target_word_count_tolerance))
MinWords(target) == (target * (100 - target_word_count_tolerance_pct)) \div 100

min_words ==
    IF phase = "sub" THEN MinWords(wordsPerSubchapter_gen)
    ELSE MinWords(wordsPerChapter_gen)

\* regenerate instead of keeping the text
RejectLowWordsAtFloor(regen, word_count, floor, a) ==
    regen /\ word_count <= floor /\ a < MAX_GENERATION_ATTEMPTS

\* if regenOnLowWords and word_count < min_words: if attempt < MAX_...
RejectLowWords(regen, word_count, floor, a) ==
    regen /\ word_count < floor /\ a < MAX_GENERATION_ATTEMPTS

\* a text rejected and the attempt not counted
AttemptAfterRejectSame(a) == a
\* sleep(waitTime); attempt += 1; continue
AttemptAfterReject(a) == a + 1

\* a rejected text that becomes the context all the same
ContextAfterRejectTaken(context, text) == text

\* the contexts after an attempt whose text is not kept
ContextAfterReject(context, text) == context

\* the total set to the count of the last text
WordsWithLastOnly(total, word_count) == word_count

\* totalGeneratedWords += word_count
WordsWith(total, word_count) == total + word_count

\* a chapter or sub-chapter text is returned
RespContentText(text, written) ==
    /\ pc = "calling"
    /\ InContent
    /\ IF text = TextLong
       THEN UNCHANGED faults
       ELSE MayFault /\ faults' = FaultsAfter
    /\ response' = TextResponse(text)
    /\ h' = Slept(IF text = TextLong THEN Answered(h) ELSE FaultyUnit(h),
                  IF RejectLowWords(regenOnLowWords, text.words, min_words,
                                    attempt) \/ written
                  THEN DelayAfterText(waitTime) ELSE 0)
    /\ IF RejectLowWords(regenOnLowWords, text.words, min_words, attempt)
       THEN /\ attempt' = AttemptAfterReject(attempt)
            /\ pc' = "attempt_top"
            /\ lastGeneratedSubchapter_Full' =
                   ContextAfterReject(lastGeneratedSubchapter_Full, Join(<<text>>))
            /\ lastGeneratedChapter_Full' =
                   ContextAfterReject(lastGeneratedChapter_Full, Join(<<text>>))
            /\ UNCHANGED <<current_chapter_content_parts,
                           totalGeneratedWords, out,
                           unit_generated_successfully, exitReason>>
       ELSE /\ IF phase = "sub"
               THEN /\ lastGeneratedSubchapter_Full' = Join(<<text>>)
                    /\ current_chapter_content_parts' =
                           Append(current_chapter_content_parts, text)
                    /\ UNCHANGED lastGeneratedChapter_Full
               ELSE /\ lastGeneratedChapter_Full' = Join(<<text>>)
                    /\ UNCHANGED <<lastGeneratedSubchapter_Full,
                                   current_chapter_content_parts>>
            /\ totalGeneratedWords' =
                   WordsWith(totalGeneratedWords, text.words)
            /\ IF written
               THEN /\ out' = Append(out, TextRecord(text))
                    /\ unit_generated_successfully' = TRUE
                    /\ pc' = "attempt_top"
                    /\ UNCHANGED exitReason
               ELSE /\ Exit("write_failure")
                    /\ UNCHANGED <<out, unit_generated_successfully>>
            /\ UNCHANGED attempt
    /\ UNCHANGED <<inputs, apiKey, derived, outlineVars, phase,
                   currentChapter, currentSubChapter, sub_chap_num, prompt>>

\* ------------------------------------------------------------------ the run
Next ==
    \/ CalcDerived
    \/ OutlineLoopTop
    \/ ChunkForNext
    \/ ChunkLoopEnd
    \/ AssembleOutline
    \/ SingleLoopEnd
    \/ \E yes \in BOOLEAN : RetryAnswer(yes)
    \/ PostOutline
    \/ \E yes \in BOOLEAN : RegenAnswer(yes)
    \/ CallAPI
    \/ AttemptLoopExit
    \/ RespQuota
    \/ \E entry \in KeyEntries : QuotaAnswer(entry)
    \/ \E prefix \in ErrorPrefixes, written \in BOOLEAN :
           RespError(prefix, written)
    \/ \E text \in OutlineTexts : RespOutlineText(text)
    \/ \E text \in ContentTexts, written \in BOOLEAN :
           RespContentText(text, written)
    \/ \E written \in BOOLEAN : WriteHeader(written)
    \/ \E written \in BOOLEAN : ChapterForNext(written)
    \/ SubForNext
    \/ UnitLoopEnd

Spec == Init /\ [][Next]_vars

\* ------------------------------------------------- the derived values alone
\* every number of words per chapter the program accepts, one chapter
InitDerived ==
    /\ ui \in {"cli", "gui"}
    /\ I_numberOfChapters = 1
    /\ I_wordsPerChapter \in MinWordsPerChapter..MaxWordsPerChapter
    /\ regenOnLowWords = FALSE
    /\ Tier({0})
    /\ Started(InitHistory)

NextDerived ==
    \/ CalcDerived
    \/ SessionStart

SpecDerived == InitDerived /\ [][NextDerived]_vars

\* ------------------------------------------------ outline generation alone
\* books of up to MaxChaptersOutline chapters, up to the frozen outline
InitOutline ==
    /\ ui \in {"cli", "gui"}
    /\ I_numberOfChapters \in 1..MaxChaptersOutline
    /\ I_wordsPerChapter \in WordsChoices
    /\ regenOnLowWords = FALSE
    /\ Tier({0})
    /\ Started(InitHistory)

NextOutline ==
    \/ CalcDerived
    \/ OutlineLoopTop
    \/ ChunkForNext
    \/ ChunkLoopEnd
    \/ AssembleOutline
    \/ SingleLoopEnd
    \/ \E yes \in BOOLEAN : RetryAnswer(yes)
    \/ PostOutline
    \/ \E yes \in BOOLEAN : RegenAnswer(yes)
    \/ CallAPI
    \/ AttemptLoopExit
    \/ RespQuota
    \/ \E entry \in KeyEntries : QuotaAnswer(entry)
    \/ \E prefix \in ErrorPrefixes : RespError(prefix, TRUE)
    \/ \E text \in OutlineTexts : RespOutlineText(text)

SpecOutline == InitOutline /\ [][NextOutline]_vars

\* --------------------------------------------- outlines with marker lines
\* The lines an outline is made of here: markers of chapters 1, 2 and 10,
\* two marker lines of a sub-chapter 1, a summary line, an empty line.
LineChapter1 ==
    Chars(<<"C", "h", "a", "p", "t", "e", "r", ":", " ", "1", ":", " ", "p">>)
LineChapter2 ==
    Chars(<<"C", "h", "a", "p", "t", "e", "r", ":", " ", "2", ":", " ", "q">>)
LineChapter10 ==
    Chars(<<"C", "h", "a", "p", "t", "e", "r", ":", " ", "1", "0", ":", " ",
            "r">>)
LineSub1p ==
    Chars(<<"-", " ", "S", "u", "b", "-", "C", "h", "a", "p", "t", "e", "r",
            ":", " ", "1", ":", " ", "p">>)
LineSub1q ==
    Chars(<<"-", " ", "S", "u", "b", "-", "C", "h", "a", "p", "t", "e", "r",
            ":", " ", "1", ":", " ", "q">>)
LineSummary == Chars(<<" ", " ", "s">>)
LineBlank == <<>>
OutlineLines ==
    {LineChapter1, LineChapter2, LineChapter10, LineSub1p, LineSub1q,
     LineSummary, LineBlank}
MarkedOutlines ==
    {JoinLines(ls) :
        ls \in UNION {[1..k -> OutlineLines] : k \in 0..MaxOutlineLines}}

\* a session without faults, the outline being any of these
InitExtract ==
    /\ ui \in {"cli", "gui"}
    /\ I_numberOfChapters \in 1..MaxChaptersExtract
    /\ I_wordsPerChapter \in WordsChoices
    /\ regenOnLowWords = FALSE
    /\ Tier({0})
    /\ Started(InitHistory)

NextExtract ==
    \/ CalcDerived
    \/ OutlineLoopTop
    \/ CallAPI
    \/ AttemptLoopExit
    \/ pc = "calling" /\ \E text \in MarkedOutlines : RespOutlineText(text)
    \/ SingleLoopEnd
    \/ PostOutline
    \/ RegenAnswer(FALSE)
    \/ WriteHeader(TRUE)
    \/ ChapterForNext(TRUE)
    \/ SubForNext
    \/ UnitLoopEnd
    \/ RespContentText(TextLong, TRUE)

SpecExtract == InitExtract /\ [][NextExtract]_vars

\* Content generation on either tier, with answers whose word count is at
\* the floor of the unit and one word under it, error results and quota
\* results.
TextOfWords(count) == [name |-> "counted", len |-> 9000, words |-> count]
GateTexts == {TextLong, TextOfWords(min_words), TextOfWords(min_words - 1)}

InitGate ==
    /\ ui \in {"cli", "gui"}
    /\ I_numberOfChapters \in 1..MaxChaptersGate
    /\ I_wordsPerChapter \in WordsChoices
    /\ regenOnLowWords \in BOOLEAN
    /\ Tier({0, 1})
    /\ Started(InitHistory)

NextGate ==
    \/ CalcDerived
    \/ OutlineLoopTop
    \/ CallAPI
    \/ AttemptLoopExit
    \/ RespOutlineText(OutlinePlain)
    \/ SingleLoopEnd
    \/ RetryAnswer(TRUE)
    \/ PostOutline
    \/ RegenAnswer(FALSE)
    \/ WriteHeader(TRUE)
    \/ ChapterForNext(TRUE)
    \/ SubForNext
    \/ UnitLoopEnd
    \/ RespQuota
    \/ QuotaAnswer([id |-> 1, len |-> 39, hasAI |-> TRUE])
    \/ RespError("API Error:", TRUE)
    \/ pc = "calling" /\ InContent /\ \E text \in GateTexts : RespContentText(text, TRUE)

SpecGate == InitGate /\ [][NextGate]_vars

\* KeyboardInterrupt raised in the worker: final.py prints where the partial
\* content is and calls sys.exit(1); gui.py logs the same and posts
\* ("generation_finished", False).  Nothing is written and nothing removed.
OutAfterInterruptRemoved(records) == <<>>

\* the output after the interrupt: the handlers do not touch the file
OutAfterInterrupt(records) == records

Interrupt ==
    /\ pc \notin {"exit", "done"}
    /\ Exit("interrupted")
    /\ out' = OutAfterInterrupt(out)
    /\ UNCHANGED <<inputs, apiKey, derived, outlineVars, loopVars,
                   contentVars, prompt, response, faults, h>>

NextInterrupt == NextGate \/ Interrupt

SpecInterrupt == InitGate /\ [][NextInterrupt]_vars

\* Sessions where every call is answered by an ordinary text, every write
\* succeeds and regeneration of the outline is declined.
WordsChoicesClean == {800, 3000}

InitClean ==
    /\ ui \in {"cli", "gui"}
    /\ I_numberOfChapters \in 1..MaxChaptersClean
    /\ I_wordsPerChapter \in WordsChoicesClean
    /\ regenOnLowWords \in BOOLEAN
    /\ Tier({0})
    /\ Started(InitHistory)

NextClean ==
    \/ CalcDerived
    \/ OutlineLoopTop
    \/ ChunkForNext
    \/ ChunkLoopEnd
    \/ AssembleOutline
    \/ SingleLoopEnd
    \/ PostOutline
    \/ RegenAnswer(FALSE)
    \/ CallAPI
    \/ AttemptLoopExit
    \/ RespOutlineText(OutlinePlain)
    \/ WriteHeader(TRUE)
    \/ ChapterForNext(TRUE)
    \/ SubForNext
    \/ UnitLoopEnd
    \/ RespContentText(TextLong, TRUE)

SpecClean == InitClean /\ [][NextClean]_vars

\* ---------------------------------------------------- getResponse alone
\* One call: r.post comes back with any of the replies, and getResponse
\* turns it into the string its caller then tells apart.
InitResponse ==
    /\ ui \in {"cli", "gui"}
    /\ I_numberOfChapters = 1
    /\ I_wordsPerChapter = MinWordsPerChapter
    /\ regenOnLowWords = FALSE
    /\ Tier({0})
    /\ apiKey = InitialKey
    /\ numberOfSubchapters = 0
    /\ wordsPerSubchapter = 0
    /\ total_outline_items = 1
    /\ G_bookOutline = <<>>
    /\ outline_generated_successfully = FALSE
    /\ outline_regeneration_requested = FALSE
    /\ outline_generation_failed = FALSE
    /\ full_outline_parts = <<>>
    /\ previous_outline_context = <<>>
    /\ chunk_index = 0
    /\ phase = "single"
    /\ attempt = 1
    /\ unit_generated_successfully = FALSE
    /\ currentChapter = 0
    /\ currentSubChapter = 0
    /\ sub_chap_num = 0
    /\ lastGeneratedChapter_Full = <<>>
    /\ lastGeneratedSubchapter_Full = <<>>
    /\ current_chapter_content_parts = <<>>
    /\ totalGeneratedWords = 0
    /\ pc = "calling"
    /\ prompt = NoPrompt
    /\ response = NoResponse
    /\ out = <<>>
    /\ exitReason = "none"
    /\ faults = 0
    /\ h = InitHistory

\* response = r.post(...), or the exception it raises
PostReturns(reply) ==
    /\ pc = "calling"
    /\ h.reply = NoReply
    /\ h' = [h EXCEPT !.reply = reply]
    /\ UNCHANGED <<inputs, apiKey, derived, outlineVars, loopVars,
                   contentVars, pc, prompt, response, out, exitReason,
                   faults>>

\* the rest of getResponse, and the caller's test of what it returns
ReturnResponse ==
    /\ pc = "calling"
    /\ h.reply # NoReply
    /\ response' = ResponseOf(getResponse(h.reply))
    /\ pc' = "answered"
    /\ UNCHANGED <<inputs, apiKey, derived, outlineVars, loopVars,
                   contentVars, prompt, out, exitReason, faults, h>>

NextResponse ==
    \/ \E reply \in Replies : PostReturns(reply)
    \/ ReturnResponse

SpecResponse == InitResponse /\ [][NextResponse]_vars

\* ------------------------------------------------- the prompts of gui.py
\* The worker thread asks through gui_queue and waits on a queue of its own;
\* process_queue, in the UI thread, shows the dialog and puts the result.
PromptPositions == {"retry_prompt", "regen_prompt", "quota_prompt"}
AskType(position) ==
    IF position = "quota_prompt" THEN "askstring" ELSE "askyesno"

\* result_queue = queue.Queue(); gui_queue.put((type, (..., result_queue)))
Asked(g, type) ==
    LET rq == Len(g.result_queues) + 1
    IN  [g EXCEPT !.result_queues = Append(@, <<>>),
                  !.gui_queue = Append(@, AskMessage(type, rq)),
                  !.result_queue = rq]

\* return result_queue.get()
Got(g) ==
    [g EXCEPT !.result_queues[g.result_queue] = Tail(@), !.result_queue = 0]

\* show_error_gui: gui_queue.put(("showerror", ...)), nothing waited for
ErrorShown(g) == [g EXCEPT !.gui_queue = Append(@, ShowErrorMessage)]

\* a result put on the queue of the first request, whoever asked
ResultQueueOfFirst(message) == 1
\* title, question, result_queue = data
ResultQueueOf(message) == message.rq

\* ask_question_gui, ask_string_gui up to the get
AskGui ==
    /\ ui = "gui"
    /\ pc \in PromptPositions
    /\ h.gui.result_queue = 0
    /\ Len(h.gui.result_queues) < MaxRequests
    /\ h' = [h EXCEPT !.gui = Asked(@, AskType(pc))]
    /\ UNCHANGED <<inputs, apiKey, derived, outlineVars, loopVars,
                   contentVars, pc, prompt, response, out, exitReason,
                   faults>>

\* process_queue: gui_queue.get_nowait() and the dialog opened
ProcessQueue ==
    /\ h.gui.gui_queue # <<>>
    /\ h.gui.dialog = NoMessage
    /\ h' = [h EXCEPT !.gui.dialog = Head(h.gui.gui_queue),
                      !.gui.gui_queue = Tail(@)]
    /\ UNCHANGED <<inputs, apiKey, derived, outlineVars, loopVars,
                   contentVars, pc, prompt, response, out, exitReason,
                   faults>>

\* process_queue: the dialog closed, result_queue.put(result)
DialogResult(result) ==
    /\ h.gui.dialog.type \in {"askyesno", "askstring"}
    /\ h' = [h EXCEPT
               !.gui.result_queues[ResultQueueOf(h.gui.dialog)] =
                   Append(@, result),
               !.gui.dialog = NoMessage]
    /\ UNCHANGED <<inputs, apiKey, derived, outlineVars, loopVars,
                   contentVars, pc, prompt, response, out, exitReason,
                   faults>>

\* process_queue: messagebox.showerror closed
DialogDismissed ==
    /\ h.gui.dialog.type = "showerror"
    /\ h' = [h EXCEPT !.gui.dialog = NoMessage]
    /\ UNCHANGED <<inputs, apiKey, derived, outlineVars, loopVars,
                   contentVars, pc, prompt, response, out, exitReason,
                   faults>>

\* the worker woken by the result on its queue
HasResult ==
    /\ ui = "gui"
    /\ h.gui.result_queue # 0
    /\ h.gui.result_queues[h.gui.result_queue] # <<>>
Result == Head(h.gui.result_queues[h.gui.result_queue])
HistoryGot == [h EXCEPT !.gui = Got(@)]

RetryResult ==
    /\ pc = "retry_prompt"
    /\ HasResult
    /\ RetryAnswerFrom(Result, HistoryGot)

RegenResult ==
    /\ pc = "regen_prompt"
    /\ HasResult
    /\ RegenAnswerFrom(Result, HistoryGot)

\* handle_quota_error_gui: an entry that is not a key is answered with
\* show_error_gui and asked again
QuotaResult ==
    /\ pc = "quota_prompt"
    /\ HasResult
    /\ QuotaAnswerFrom(Result,
                       IF Result.len = 0 \/ ValidKey(Result) THEN HistoryGot
                       ELSE [h EXCEPT !.gui = ErrorShown(Got(@))])

InitDialog ==
    /\ ui = "gui"
    /\ I_numberOfChapters \in 1..MaxChaptersGate
    /\ I_wordsPerChapter \in WordsChoices
    /\ regenOnLowWords = FALSE
    /\ Tier({0})
    /\ Started(InitHistory)

NextDialog ==
    \/ CalcDerived
    \/ OutlineLoopTop
    \/ CallAPI
    \/ AttemptLoopExit
    \/ RespOutlineText(OutlinePlain)
    \/ SingleLoopEnd
    \/ PostOutline
    \/ WriteHeader(TRUE)
    \/ ChapterForNext(TRUE)
    \/ SubForNext
    \/ UnitLoopEnd
    \/ RespQuota
    \/ RespError("API Error:", TRUE)
    \/ RespContentText(TextLong, TRUE)
    \/ AskGui
    \/ ProcessQueue
    \/ \E result \in BOOLEAN : h.gui.dialog.type = "askyesno" /\ DialogResult(result)
    \/ \E result \in KeyEntries : h.gui.dialog.type = "askstring" /\ DialogResult(result)
    \/ DialogDismissed
    \/ RetryResult
    \/ RegenResult
    \/ QuotaResult

SpecDialog == InitDialog /\ [][NextDialog]_vars

\* ------------------------------------------------ the calls of a unit
\* The calls made for the unit in progress and the keys accepted meanwhile
\* are counted; a quota error is answered at most MaxKeys times per unit.
\* The worker runs on, every call is answered, and a key prompt is answered
\* sooner or later with a key or with nothing.
CountedCall == CallAPIFrom([h EXCEPT !.calls = @ + 1])

CountedQuotaAnswer(entry) ==
    QuotaAnswerFrom(entry, IF ValidKey(entry) THEN [h EXCEPT !.keys = @ + 1]
                           ELSE h)

InitCalls ==
    /\ ui \in {"cli", "gui"}
    /\ I_numberOfChapters \in 1..MaxChaptersGate
    /\ I_wordsPerChapter \in WordsChoices
    /\ regenOnLowWords \in BOOLEAN
    /\ Tier({0})
    /\ Started(InitHistory)

NextCalls ==
    \/ CalcDerived
    \/ OutlineLoopTop
    \/ CountedCall
    \/ AttemptLoopExit
    \/ RespOutlineText(OutlinePlain)
    \/ SingleLoopEnd
    \/ RetryAnswer(TRUE)
    \/ PostOutline
    \/ RegenAnswer(FALSE)
    \/ WriteHeader(TRUE)
    \/ ChapterForNext(TRUE)
    \/ SubForNext
    \/ UnitLoopEnd
    \/ h.keys < MaxKeys /\ RespQuota
    \/ pc = "quota_prompt" /\ \E entry \in KeyEntries : CountedQuotaAnswer(entry)
    \/ RespError("API Error:", TRUE)
    \/ pc = "calling" /\ InContent /\ \E text \in GateTexts : RespContentText(text, TRUE)

SpecCalls == InitCalls /\ [][NextCalls]_vars /\ WF_vars(NextCalls)

\* ------------------------------------------------ the worker of gui.py
\* The window is idle until Generate is pressed; start_generation_thread
\* disables the controls and starts a thread on run_generation_logic, which
\* puts generation_finished on gui_queue as its last statement;
\* process_queue, on the UI thread, shows the boxes and enables the
\* controls again.  pc is the position of the thread last started.
gen_state ==
    <<numberOfSubchapters, wordsPerSubchapter, total_outline_items,
      G_bookOutline, apiKey, currentChapter, currentSubChapter,
      lastGeneratedChapter_Full, lastGeneratedSubchapter_Full,
      totalGeneratedWords>>

\* the controls left as they are
GuiStateOfNormal(enabled) == "normal"

\* set_gui_state: state = "normal" if enabled else "disabled"
GuiStateOf(enabled) == IF enabled THEN "normal" ELSE "disabled"

\* start_generation_thread up to set_gui_state(enabled=False); proceed is
\* FALSE when the inputs are rejected or a confirmation is declined
PressGenerate(proceed) ==
    /\ ui = "gui"
    /\ h.app.button = "normal"
    /\ ~h.app.starting
    /\ h.gui.dialog = NoMessage
    /\ h.runs < MaxRuns
    /\ h' = IF proceed
            THEN [h EXCEPT !.app.button = GuiStateOf(FALSE),
                           !.app.starting = TRUE]
            ELSE h
    /\ UNCHANGED <<inputs, apiKey, derived, outlineVars, loopVars,
                   contentVars, pc, prompt, response, out, exitReason,
                   faults>>

\* self.generation_thread = threading.Thread(...); .start()
StartThread ==
    /\ h.app.starting
    /\ pc' = "thread_started"
    /\ h' = [h EXCEPT !.app.starting = FALSE, !.app.workers = @ + 1,
                      !.app.sent = 0]
    /\ UNCHANGED <<inputs, apiKey, derived, outlineVars, loopVars,
                   contentVars, prompt, response, out, exitReason, faults>>

\* run_generation_logic down to "try:"
RunGenerationLogic == pc = "thread_started" /\ SessionStart

\* the end of run_generation_logic: show_info_gui and
\* ("generation_finished", True) after the last statement of the try,
\* show_error_gui and ("generation_finished", False) in the handler
WorkerReturn ==
    /\ pc \in {"done", "exit"}
    /\ pc' = "returned"
    /\ h' = [h EXCEPT
               !.gui.gui_queue =
                   @ \o <<IF pc = "done" THEN ShowInfoMessage
                          ELSE ShowErrorMessage,
                          FinishedMessage(pc = "done")>>,
               !.app.sent = @ + 1,
               !.app.workers = @ - 1]
    /\ UNCHANGED <<inputs, apiKey, derived, outlineVars, loopVars,
                   contentVars, prompt, response, out, exitReason, faults>>

\* process_queue: messagebox.showinfo, messagebox.showerror
ShowBox ==
    /\ h.gui.gui_queue # <<>>
    /\ h.gui.dialog = NoMessage
    /\ ~h.app.starting
    /\ Head(h.gui.gui_queue).type \in {"showinfo", "showerror"}
    /\ h' = [h EXCEPT !.gui.dialog = Head(h.gui.gui_queue),
                      !.gui.gui_queue = Tail(@)]
    /\ UNCHANGED <<inputs, apiKey, derived, outlineVars, loopVars,
                   contentVars, pc, prompt, response, out, exitReason,
                   faults>>

CloseBox ==
    /\ h.gui.dialog.type \in {"showinfo", "showerror"}
    /\ h' = [h EXCEPT !.gui.dialog = NoMessage]
    /\ UNCHANGED <<inputs, apiKey, derived, outlineVars, loopVars,
                   contentVars, pc, prompt, response, out, exitReason,
                   faults>>

\* process_queue: generation_finished
ProcessFinished ==
    /\ h.gui.gui_queue # <<>>
    /\ h.gui.dialog = NoMessage
    /\ ~h.app.starting
    /\ Head(h.gui.gui_queue).type = "generation_finished"
    /\ h' = [h EXCEPT !.app.button = GuiStateOf(TRUE),
                      !.gui.gui_queue = Tail(@)]
    /\ UNCHANGED <<inputs, apiKey, derived, outlineVars, loopVars,
                   contentVars, pc, prompt, response, out, exitReason,
                   faults>>

InitWorker ==
    /\ ui = "gui"
    /\ I_numberOfChapters \in 1..MaxChaptersGate
    /\ I_wordsPerChapter \in WordsChoices
    /\ regenOnLowWords = FALSE
    /\ Tier({0})
    /\ StartedAt("idle", [InitHistory EXCEPT !.runs = 0])

NextWorker ==
    \/ \E proceed \in BOOLEAN : PressGenerate(proceed)
    \/ StartThread
    \/ RunGenerationLogic
    \/ WorkerReturn
    \/ ShowBox
    \/ CloseBox
    \/ ProcessFinished
    \/ CalcDerived
    \/ OutlineLoopTop
    \/ CallAPI
    \/ AttemptLoopExit
    \/ RespOutlineText(OutlinePlain)
    \/ SingleLoopEnd
    \/ \E yes \in BOOLEAN : RetryAnswer(yes)
    \/ PostOutline
    \/ RegenAnswer(FALSE)
    \/ \E ok \in BOOLEAN : WriteHeader(ok)
    \/ ChapterForNext(TRUE)
    \/ SubForNext
    \/ UnitLoopEnd
    \/ RespQuota
    \/ pc = "quota_prompt" /\ \E entry \in KeyEntries : QuotaAnswer(entry)
    \/ RespError("API Error:", TRUE)
    \/ pc = "calling" /\ InContent /\ RespContentText(TextLong, TRUE)

SpecWorker == InitWorker /\ [][NextWorker]_vars

\* ------------------------------------------------ the key of each call
\* The key every call is made with, what is typed at the key prompt and the
\* entry last accepted are recorded; there are two keys the program accepts.
KeyEntriesTwo == KeyEntries \cup {[id |-> 5, len |-> 31, hasAI |-> TRUE]}

\* response = getResponse(I_apiKey, prompt)
KeyedCall == CallAPIFrom([h EXCEPT !.calls = @ + 1, !.callKey = apiKey])

KeyedQuotaAnswer(entry) ==
    QuotaAnswerFrom(entry,
                    IF ValidKey(entry)
                    THEN [h EXCEPT !.keys = @ + 1, !.entry = entry,
                                   !.accepted = entry]
                    ELSE [h EXCEPT !.entry = entry])

InitKeys ==
    /\ ui \in {"cli", "gui"}
    /\ I_numberOfChapters \in 1..MaxChaptersGate
    /\ I_wordsPerChapter \in WordsChoices
    /\ regenOnLowWords = FALSE
    /\ Tier({0})
    /\ Started(InitHistory)

NextKeys ==
    \/ CalcDerived
    \/ OutlineLoopTop
    \/ KeyedCall
    \/ AttemptLoopExit
    \/ RespOutlineText(OutlinePlain)
    \/ SingleLoopEnd
    \/ RetryAnswer(TRUE)
    \/ PostOutline
    \/ RegenAnswer(FALSE)
    \/ WriteHeader(TRUE)
    \/ ChapterForNext(TRUE)
    \/ SubForNext
    \/ UnitLoopEnd
    \/ h.keys < MaxKeys /\ RespQuota
    \/ pc = "quota_prompt" /\ \E entry \in KeyEntriesTwo : KeyedQuotaAnswer(entry)
    \/ pc = "calling" /\ InContent /\ RespContentText(TextLong, TRUE)

SpecKeys == InitKeys /\ [][NextKeys]_vars

\* ------------------------------------------- the client and its callers
\* Every call is answered by getResponse from what r.post brought back, one
\* reply for each return statement of getResponse, and the caller goes on
\* by the tests it makes of the string.  A string that is not a generated
\* text, taken for one, would be a text of a few words.
ReplyOf(status, error, candidates) ==
    [NoReply EXCEPT !.transport = "ok", !.status = status, !.json = TRUE,
                    !.error = error, !.candidates = candidates]
OneCandidate(finish, parts) ==
    [has |-> TRUE,
     list |-> <<[hasFinish |-> TRUE, finishReason |-> finish,
                 hasContent |-> TRUE,
                 content |-> [hasParts |-> TRUE, parts |-> parts]]>>]
ErrorOf(code) ==
    [present |-> TRUE, hasCode |-> TRUE, code |-> code, hasMessage |-> FALSE,
     message |-> <<>>]
ReturnPaths ==
    {TransportFailure(what) : what \in {"timeout", "failed", "unexpected"}}
    \cup {[NoReply EXCEPT !.transport = "ok", !.status = st] : st \in {429, 503}}
    \cup {ReplyOf(st, ErrorOf(st), NoCandidates) : st \in {429, 400}}
    \cup {ReplyOf(st, NoPayload, NoCandidates) : st \in {429, 503}}
    \cup {ReplyOf(200, NoPayload, [has |-> TRUE, list |-> <<>>])}
    \cup {ReplyOf(200, NoPayload, OneCandidate(f, ps)) :
            f \in {"STOP", "SAFETY"},
            ps \in {<<EmptyPart>>, <<TextPart(TextLong)>>, <<TextPart(TextEmpty)>>}}

TextOfReturned(returned) ==
    IF returned.prefix = "" THEN returned.detail[1]
    ELSE [name |-> returned.prefix, len |-> 60, words |-> 8]
OutlineOfReturned(returned) ==
    IF returned.prefix # "" THEN <<[ch |-> "E", n |-> 60]>>
    ELSE IF returned.detail[1] = TextEmpty THEN OutlineEmpty
    ELSE OutlinePlain

\* response = getResponse(apiKey, prompt) and the if ... elif ... that follows
ClientReturn ==
    /\ pc = "calling"
    /\ h.reply # NoReply
    /\ LET returned == getResponse(h.reply)
       IN  IF ResponseOf(returned).kind = "quota" THEN RespQuota
           ELSE IF ResponseOf(returned).kind = "error"
           THEN RespError(returned.prefix, TRUE)
           ELSE IF InOutline THEN RespOutlineText(OutlineOfReturned(returned))
           ELSE RespContentText(TextOfReturned(returned), TRUE)

InitClient ==
    /\ ui \in {"cli", "gui"}
    /\ I_numberOfChapters \in 1..MaxChaptersGate
    /\ I_wordsPerChapter \in WordsChoices
    /\ regenOnLowWords = FALSE
    /\ Tier({0})
    /\ Started(InitHistory)

NextClient ==
    \/ CalcDerived
    \/ OutlineLoopTop
    \/ CallAPIFrom([h EXCEPT !.reply = NoReply])
    \/ AttemptLoopExit
    \/ pc = "calling" /\ \E reply \in ReturnPaths : PostReturns(reply)
    \/ ClientReturn
    \/ SingleLoopEnd
    \/ RetryAnswer(TRUE)
    \/ PostOutline
    \/ RegenAnswer(FALSE)
    \/ WriteHeader(TRUE)
    \/ ChapterForNext(TRUE)
    \/ SubForNext
    \/ UnitLoopEnd
    \/ QuotaAnswer([id |-> 1, len |-> 39, hasAI |-> TRUE])

SpecClient == InitClient /\ [][NextClient]_vars

\* ============================================================ the properties
AtCall == pc \in {"calling", "quota_prompt"}
CurrentUnit ==
    <<currentChapter, IF phase = "sub" THEN currentSubChapter ELSE 0>>
LastOut == out[Len(out)]

\* C1: every API call of a unit is made under an attempt number of at most 4;
\* the 4th attempt ending in an error result fails the unit (the outline pass
\* is marked failed, a content unit is left without success), and no call
\* is made for a unit that has failed.
C1_CallsWithinCap ==
    /\ AtCall => attempt \in 1..MAX_GENERATION_ATTEMPTS
    /\ h.unitFailed => ~AtCall
    /\ h.unitFailed /\ pc = "attempt_top" =>
           ~LoopCondition(attempt, unit_generated_successfully)
C1_FourthErrorFails ==
    [][pc = "calling" /\ attempt = MAX_GENERATION_ATTEMPTS
         /\ response'.kind = "error" /\ pc' # "exit"
       => /\ h'.unitFailed
          /\ ~unit_generated_successfully'
          /\ pc' # "calling"
          /\ InOutline => outline_generation_failed']_vars
C2_QuotaRetrySamePrompt ==
    /\ h.quotaRetry /\ pc = "attempt_top" =>
           LoopCondition(attempt, unit_generated_successfully)
    /\ h.quotaRetry /\ pc = "attempt_top" => CurrentPrompt = h.quotaPrompt
    /\ h.quotaRetry /\ pc = "calling" =>
           /\ prompt = h.quotaPrompt
           /\ attempt = h.quotaAttempt
    /\ h.quotaRetry => pc \in {"attempt_top", "calling"}
C2_Witness ==
    /\ h.quotaRetry
    /\ pc = "calling"
    /\ apiKey # InitialKey
    /\ prompt.context.form = "tail"
    /\ attempt > 1

\* C3 (as claimed): once the credential prompt has returned none, no API
\* call is made any more in the session.
C3_AbandonStopsSession == h.abandoned => ~AtCall

\* C4 (as claimed): the session is not ended because of a failed outline
\* pass unless the choice to retry was offered for that pass.
C4_RetryAlwaysOffered ==
    pc = "exit" /\ exitReason \in {"outline_fatal", "outline_refused"} =>
        h.retryOffered

\* C5: in chunked mode no chunk is requested once a chunk of the pass has
\* failed, a failed pass stores no outline, and when content generation
\* starts the outline is the join of all ceil(N/3) chunks of the pass.
Chunked == total_outline_items > OUTLINE_CHUNK_THRESHOLD
C5_NoPartialOutline ==
    /\ outline_generation_failed /\ phase = "chunk" =>
           pc \notin {"chunk_for", "attempt_top", "calling", "quota_prompt"}
    /\ outline_generation_failed =>
           /\ G_bookOutline = <<>>
           /\ ~outline_generated_successfully
           /\ ~h.frozen
    /\ h.frozen /\ Chunked =>
           /\ Len(full_outline_parts) = num_chunks
           /\ G_bookOutline = JoinOutline(full_outline_parts)
C5_Witness ==
    /\ phase = "chunk"
    /\ outline_generation_failed
    /\ Len(full_outline_parts) >= 1
    /\ pc = "chunks_done"

\* C6: a successful outline pass is followed by the question whether to
\* regenerate, and content generation starts only from the answer no; the
\* answer yes restarts outline generation with an empty outline, chunk list
\* and chunk context and the attempt counter at 1; after the answer no the
\* outline is the one every content prompt carries, unchanged.
C6_AskedAfterSuccess ==
    [][/\ pc = "post_outline" /\ outline_generated_successfully =>
              pc' = "regen_prompt"
       /\ pc' = "write_header" => pc = "regen_prompt"
       /\ pc = "regen_prompt" /\ pc' # "write_header" =>
              pc' = "outline_top" /\ ~outline_generated_successfully'
       /\ pc = "outline_top" =>
              /\ G_bookOutline' = <<>>
              /\ full_outline_parts' = <<>>
              /\ previous_outline_context' = <<>>
              /\ phase' = "single" => attempt' = 1
              /\ phase' = "chunk" => chunk_index' = 0
       /\ pc = "chunk_for" /\ pc' = "attempt_top" => attempt' = 1]_vars
C6_FrozenOutline ==
    /\ h.frozen => G_bookOutline = h.frozenOutline
    /\ pc = "calling" /\ InContent =>
           h.frozen /\ prompt.outline = h.frozenOutline
    /\ InContent => h.frozen
C6_RegenerateOrFreeze == C6_AskedAfterSuccess /\ []C6_FrozenOutline
C6_Witness ==
    /\ h.regenerated
    /\ h.frozen
    /\ pc = "calling"
    /\ InContent
    /\ currentChapter = I_numberOfChapters
    /\ prompt.outline # <<>>

\* C7: a chapter or sub-chapter whose 4th attempt ends in an error result
\* gets an error marker written in place of its text, and the loop goes on
\* to the next unit; the session ends there only if the marker cannot be
\* written.
NoTextOf(unit) ==
    \A i \in 1..Len(out) : out[i].kind = "text" => out[i].unit # unit
C7_MarkerWritten ==
    [][pc = "calling" /\ InContent /\ attempt = MAX_GENERATION_ATTEMPTS
         /\ response'.kind = "error"
       => \/ /\ out' = Append(out, [kind |-> "error", unit |-> CurrentUnit,
                                    body |-> response'.body])
             /\ pc' \in {"attempt_top", "unit_loop_end"}
             /\ exitReason' = "none"
          \/ /\ pc' = "exit"
             /\ exitReason' = "write_failure"
             /\ out' = out]_vars
C7_GoesOn ==
    /\ h.unitFailed /\ InContent /\ response.kind = "error" =>
           /\ pc \in {"attempt_top", "unit_loop_end", "sub_for", "chapter_for"}
           /\ exitReason = "none"
           /\ LastOut.kind = "error" /\ LastOut.unit = CurrentUnit
           /\ NoTextOf(CurrentUnit)
    /\ h.unitFailed /\ InContent /\ pc = "attempt_top" =>
           ~LoopCondition(attempt, unit_generated_successfully)
C7_StepsOn ==
    [][pc = "unit_loop_end" => pc' \in {"sub_for", "chapter_for"}]_vars
C7_ErrorMarkerAndContinue == C7_MarkerWritten /\ []C7_GoesOn /\ C7_StepsOn
C7_Witness ==
    /\ pc = "calling"
    /\ InContent
    /\ \E i \in 1..Len(out) :
           out[i].kind = "error" /\ out[i].unit # CurrentUnit

\* C8: an attempt that ends in an error result or whose text is rejected
\* for its word count leaves both continuity contexts as they were; when a
\* text is accepted the context of its kind of unit is that text.
C8_ContextOnAcceptOnly ==
    [][pc = "calling" /\ InContent /\ pc' # "quota_prompt"
       => IF unit_generated_successfully'
          THEN /\ response'.kind = "text"
               /\ phase = "sub" =>
                      /\ lastGeneratedSubchapter_Full' =
                             Join(<<response'.body[1]>>)
                      /\ UNCHANGED lastGeneratedChapter_Full
               /\ phase = "chapter" =>
                      /\ lastGeneratedChapter_Full' =
                             Join(<<response'.body[1]>>)
                      /\ UNCHANGED lastGeneratedSubchapter_Full
          ELSE pc' # "exit" =>
                   UNCHANGED <<lastGeneratedChapter_Full,
                               lastGeneratedSubchapter_Full>>]_vars
C8_Witness ==
    /\ InContent
    /\ attempt = 2
    /\ unit_generated_successfully
    /\ Len(out) > 0
    /\ LastOut.kind = "text"
    /\ LastOut.unit = CurrentUnit
    /\ LastOut.body = <<TextLong>>
    /\ (IF phase = "sub" THEN lastGeneratedSubchapter_Full
        ELSE lastGeneratedChapter_Full) = <<TextLong>>
    /\ faults = 1

\* C9 (as claimed): the sub-chapter context is empty when a chapter starts,
\* and the chapter-level context, once not empty, is never empty again.
C9_ChapterContextKept ==
    [][/\ currentChapter' # currentChapter /\ pc' # "exit" =>
              lastGeneratedSubchapter_Full' = <<>>
       /\ lastGeneratedChapter_Full # <<>> =>
              lastGeneratedChapter_Full' # <<>>]_vars

\* C10 (as claimed): the context of a content prompt is at most 2000
\* characters, and it is the N/A form exactly for the first chapter and for
\* the first sub-chapter of a chapter.
FirstUnit ==
    \/ phase = "chapter" /\ currentChapter = 1
    \/ phase = "sub" /\ currentSubChapter = 1
C10_ContextEmptyOnlyFirst ==
    pc = "calling" /\ InContent =>
        /\ prompt.context.chars <= MAX_CONTEXT_CHARS
        /\ prompt.context.form # "tail" <=> FirstUnit

\* C11: with w the words per chapter, the number of sub-chapters and the
\* words per sub-chapter are 0 and 0 when w <= 1500, and otherwise
\* max(3, ceil(w / 500)) and ceil(w / that number); a session run again
\* with the same inputs computes the same values.
IsCeilOf(q, a, b) == q * b >= a /\ (q - 1) * b < a
IsMaxOf(m, a, b) == m >= a /\ m >= b /\ m \in {a, b}
C11_DerivedValues ==
    /\ pc # "start" =>
           IF I_wordsPerChapter <= 1500
           THEN numberOfSubchapters = 0 /\ wordsPerSubchapter = 0
           ELSE /\ \E c \in 1..(I_wordsPerChapter \div 500 + 1) :
                       /\ IsCeilOf(c, I_wordsPerChapter, 500)
                       /\ IsMaxOf(numberOfSubchapters, 3, c)
                /\ IsCeilOf(wordsPerSubchapter, I_wordsPerChapter,
                            numberOfSubchapters)
    /\ pc # "start" /\ h.runs > 1 => derived = h.firstDerived
C11_Witness ==
    /\ pc = "outline_top"
    /\ h.runs = 2
    /\ I_wordsPerChapter = 1501
    /\ numberOfSubchapters = 4
    /\ wordsPerSubchapter = 376

\* C12: the outline items are N x sub-chapters when there are sub-chapters
\* and N otherwise; an outline pass goes by chunks exactly when the items
\* are more than 15, and a successful pass has run ceil(N / 3) chunk units
\* then, and one unit otherwise.
UnitsOfPass ==
    IF total_outline_items > 15
    THEN CHOOSE k \in 1..I_numberOfChapters : IsCeilOf(k, I_numberOfChapters, 3)
    ELSE 1
C12_ItemsAndChunks ==
    /\ pc # "start" =>
           total_outline_items =
               IF numberOfSubchapters > 0
               THEN I_numberOfChapters * numberOfSubchapters
               ELSE I_numberOfChapters
    /\ phase # "none" => (phase = "chunk" <=> total_outline_items > 15)
    /\ phase # "none" => Len(h.passUnits) <= UnitsOfPass
    /\ outline_generated_successfully => Len(h.passUnits) = UnitsOfPass
C12_Witness ==
    /\ pc = "regen_prompt"
    /\ total_outline_items = 16
    /\ numberOfSubchapters = 0
    /\ Len(h.passUnits) = 6

\* What the lines of a marked outline are, and the least of a set of indices
ChapterOfLine(l) ==
    IF l = LineChapter1 THEN 1
    ELSE IF l = LineChapter2 THEN 2
    ELSE IF l = LineChapter10 THEN 10
    ELSE 0
SubChapterOfLine(l) == IF l \in {LineSub1p, LineSub1q} THEN 1 ELSE 0
Least(S) == CHOOSE i \in S : \A j \in S : i <= j
\* the lines from index i up to the first line after it that is in stops
LinesUpTo(ls, i, stops) ==
    SubSeq(ls, i, IF stops = {} THEN Len(ls) ELSE Least(stops) - 1)

\* C13 (as claimed): when the outline has a marker line of the chapter, the
\* section in the prompt of the chapter is the first such line and the lines
\* after it, up to but excluding the next chapter marker (of any chapter,
\* this one included) or the first empty line.
C13_ChapterSection ==
    pc = "calling" /\ phase = "chapter" =>
        LET ls == splitlines(prompt.outline)
            marks == {i \in 1..Len(ls) : ChapterOfLine(ls[i]) = currentChapter}
        IN marks # {} =>
               LET i == Least(marks)
                   stops == {j \in (i + 1)..Len(ls) :
                                \/ ChapterOfLine(ls[j]) # 0
                                \/ ls[j] = LineBlank}
               IN prompt.relevant_outline =
                      [form |-> "section",
                       text |-> JoinLines(LinesUpTo(ls, i, stops))]

\* C14 (as claimed): when the block of the chapter in the outline (from its
\* marker to the next chapter marker) has a marker line of the sub-chapter,
\* the section in the prompt of the sub-chapter is that line and the lines
\* after it, up to the next marker or empty line.
C14_SubChapterSection ==
    pc = "calling" /\ phase = "sub" =>
        LET ls == splitlines(prompt.outline)
            marks == {i \in 1..Len(ls) : ChapterOfLine(ls[i]) = currentChapter}
        IN marks # {} =>
               LET i == Least(marks)
                   next == {j \in (i + 1)..Len(ls) : ChapterOfLine(ls[j]) # 0}
                   last == IF next = {} THEN Len(ls) ELSE Least(next) - 1
                   subs == {k \in (i + 1)..last :
                               SubChapterOfLine(ls[k]) = currentSubChapter}
               IN subs # {} =>
                      LET k == Least(subs)
                          stops == {j \in (k + 1)..Len(ls) :
                                       \/ ChapterOfLine(ls[j]) # 0
                                       \/ SubChapterOfLine(ls[j]) # 0
                                       \/ ls[j] = LineBlank}
                      IN prompt.relevant_outline =
                             [form |-> "section",
                              text |-> JoinLines(LinesUpTo(ls, k, stops))]

\* C15: when no line of the outline is a marker of the unit, the prompt of
\* the unit is built all the same, with the error placeholder for section,
\* and it is sent as the first attempt of the unit.
NoMarkerOfUnit ==
    \A l \in {splitlines(G_bookOutline)[i] :
                 i \in 1..Len(splitlines(G_bookOutline))} :
        IF phase = "sub" THEN SubChapterOfLine(l) # currentSubChapter
        ELSE ChapterOfLine(l) # currentChapter
C15_PlaceholderSection ==
    pc = "calling" /\ InContent /\ NoMarkerOfUnit =>
        /\ prompt.relevant_outline = [form |-> ErrorPlaceholder, text |-> <<>>]
        /\ prompt.unit = CurrentUnit
        /\ prompt.option = (IF phase = "sub" THEN 3 ELSE 2)
        /\ prompt.target_words > 0
        /\ attempt = 1
        /\ exitReason = "none"
C15_Witness ==
    /\ pc = "calling"
    /\ InContent
    /\ G_bookOutline = <<>>
    /\ currentChapter = 2
    /\ prompt.relevant_outline.form = ErrorPlaceholder

\* C16: the stored outline, the continuity text of the chunks and every part
\* kept for the concatenation hold neither '<' nor '>'; what is stored of an
\* accepted answer is the answer with its brackets taken out, all its other
\* characters kept in order, and stripping it again changes nothing.
NoBrackets(text) == \A i \in 1..Len(text) : text[i].ch \notin {"<", ">"}
RECURSIVE OnlyBracketsRemoved(_, _)
OnlyBracketsRemoved(text, stripped) ==
    IF text = <<>> THEN stripped = <<>>
    ELSE IF Head(text).ch \in {"<", ">"}
         THEN OnlyBracketsRemoved(Tail(text), stripped)
         ELSE /\ stripped # <<>>
              /\ Head(stripped) = Head(text)
              /\ OnlyBracketsRemoved(Tail(text), Tail(stripped))
C16_BracketFree ==
    /\ NoBrackets(G_bookOutline)
    /\ NoBrackets(previous_outline_context)
    /\ \A i \in 1..Len(full_outline_parts) : NoBrackets(full_outline_parts[i])
    /\ \A i \in 1..Len(h.passAccepted) :
           LET text == h.passAccepted[i].text
           IN /\ OnlyBracketsRemoved(text, removeBrackets(text))
              /\ removeBrackets(removeBrackets(text)) = removeBrackets(text)
    /\ phase = "chunk" =>
           /\ Len(full_outline_parts) = Len(h.passAccepted)
           /\ \A i \in 1..Len(full_outline_parts) :
                  full_outline_parts[i] = removeBrackets(h.passAccepted[i].text)
C16_Witness ==
    /\ phase = "chunk"
    /\ outline_generated_successfully
    /\ Len(full_outline_parts) > 1
    /\ \E i \in 1..Len(h.passAccepted) :
           h.passAccepted[i].text = OutlineBracketed
    /\ G_bookOutline # <<>>

\* C17: an outline assembled from chunks is the accepted answers of the
\* chunks 1..ceil(N/3) of the pass that assembled it, one per chunk, in the
\* order of their chapter ranges, brackets taken out, joined by a blank line;
\* nothing else is in it.
ChunkRange(k) ==
    <<(k - 1) * CHAPTERS_PER_OUTLINE_CHUNK + 1,
      Min(k * CHAPTERS_PER_OUTLINE_CHUNK, I_numberOfChapters)>>
AcceptedOfPass ==
    [k \in 1..Len(h.passAccepted) |-> removeBrackets(h.passAccepted[k].text)]
C17_ChunkedOutline ==
    total_outline_items > OUTLINE_CHUNK_THRESHOLD
    /\ outline_generated_successfully =>
        /\ Len(h.passAccepted) =
               CeilDiv(I_numberOfChapters, CHAPTERS_PER_OUTLINE_CHUNK)
        /\ \A k \in 1..Len(h.passAccepted) :
               h.passAccepted[k].unit = ChunkRange(k)
        /\ G_bookOutline = JoinOutline(AcceptedOfPass)
C17_Witness ==
    /\ total_outline_items > OUTLINE_CHUNK_THRESHOLD
    /\ outline_generated_successfully
    /\ h.regenerated
    /\ Len(h.passAccepted) = 6
    /\ h.passAccepted[2].text = OutlineBracketed
    /\ h.passAccepted[1].text = OutlinePlain

\* C18: every request for chunk k > 1 carries the last 1000 characters of
\* what was stored of the accepted answer to chunk k-1 of the same pass, on
\* each attempt; every request for chunk 1 carries no text of an outline.
OutlineTextCarried == IF prompt.context.form = "tail" THEN prompt.context.of ELSE <<>>
C18_ChunkContinuity ==
    pc = "calling" /\ phase = "chunk" =>
        /\ prompt.unit = ChunkRange(chunk_index + 1)
        /\ Len(h.passAccepted) = chunk_index
        /\ IF chunk_index = 0
           THEN prompt.context = NoContext("This is the first chunk of the outline.")
           ELSE /\ h.passAccepted[chunk_index].unit = ChunkRange(chunk_index)
                /\ OutlineTextCarried =
                       LastRuns(removeBrackets(h.passAccepted[chunk_index].text),
                                OUTLINE_CONTEXT_CHARS)
C18_Witness ==
    /\ pc = "calling"
    /\ phase = "chunk"
    /\ chunk_index = 1
    /\ attempt = 3
    /\ h.regenerated
    /\ prompt.context.form = "tail"
    /\ prompt.context.of = <<[ch |-> "a", n |-> OUTLINE_CONTEXT_CHARS]>>

\* C19: a text answered for a chapter or sub-chapter on attempt k is kept
\* exactly when regeneration on low word count is off, or its words reach
\* the floor of the unit (its target times 1.8, truncated, times 0.8,
\* truncated), or k is 4.  Otherwise nothing of it is kept, the attempt
\* becomes k + 1 and the next request of the unit is the same prompt.
FloorOfTarget(target) == (((target * 18) \div 10) * 80) \div 100
FloorOfUnit ==
    IF phase = "sub" THEN FloorOfTarget(wordsPerSubchapter)
    ELSE FloorOfTarget(I_wordsPerChapter)
TextIsAnswered == pc = "calling" /\ InContent /\ response'.kind = "text"
C19_WordCountGate ==
    [][TextIsAnswered =>
           LET text == response'.body[1]
           IN IF \/ ~regenOnLowWords
                 \/ text.words >= FloorOfUnit
                 \/ attempt = MAX_GENERATION_ATTEMPTS
              THEN /\ unit_generated_successfully'
                   /\ attempt' = attempt
                   /\ totalGeneratedWords' = totalGeneratedWords + text.words
                   /\ out' = Append(out, TextRecord(text))
              ELSE /\ ~unit_generated_successfully'
                   /\ attempt' = attempt + 1
                   /\ pc' = "attempt_top"
                   /\ LoopCondition(attempt', unit_generated_successfully')
                   /\ CurrentPrompt' = prompt
                   /\ UNCHANGED <<out, totalGeneratedWords,
                                  current_chapter_content_parts>>]_vars
C19_Witness ==
    /\ regenOnLowWords
    /\ InContent
    /\ pc = "attempt_top"
    /\ ~unit_generated_successfully
    /\ attempt = MAX_GENERATION_ATTEMPTS
    /\ response = TextResponse(TextOfWords(FloorOfUnit - 1))
    /\ currentChapter = 2

\* C20: waitTime is 5 seconds on the free tier and half a second on the paid
\* tier and no step changes it; the worker sleeps waitTime after every
\* accepted unit and before every retry for low word count, twice waitTime
\* before every retry after an error result, and no request is sent without
\* a sleep since the last answer unless it is the first attempt of a unit
\* and the last answer was not a text.
AcceptedStep == pc = "calling" /\ response'.kind = "text" /\ unit_generated_successfully'
LowWordRetryStep == pc = "calling" /\ response'.kind = "text" /\ attempt' = attempt + 1
ErrorRetryStep == pc = "calling" /\ response'.kind = "error" /\ pc' = "attempt_top" /\ LoopCondition(attempt', unit_generated_successfully')
RequestStep == pc = "attempt_top" /\ pc' = "calling"
C20_InterCallDelay ==
    [][/\ waitTime = (IF I_apiLevel = 0 THEN 2 * 5 ELSE 1)
       /\ waitTime' = waitTime
       /\ AcceptedStep => h'.slept = waitTime
       /\ LowWordRetryStep => h'.slept = waitTime
       /\ ErrorRetryStep => h'.slept = 2 * waitTime
       /\ RequestStep /\ h.slept = 0 =>
              /\ attempt = 1
              /\ response.kind # "text"]_vars
C20_Witness ==
    /\ I_apiLevel = 1
    /\ InContent
    /\ pc = "calling"
    /\ attempt = 3
    /\ response = ErrorResponse("API Error:")
    /\ h.slept = 2
    /\ out # <<>>

\* C21: when every call is answered by a text that is kept and regeneration
\* is declined, the session ends having begun one outline unit, or the
\* ceil(N/3) chunks when the items exceed 15, and having written the header
\* with the outline, then for each chapter in turn its header and the text of
\* its one unit or of its S sub-chapters in order; every request is a first
\* attempt, and the sub-chapter texts of a chapter are joined once, after
\* the last of them.
UnitsOfChapter(c) ==
    IF numberOfSubchapters = 0 THEN << <<c, 0>> >>
    ELSE [s \in 1..numberOfSubchapters |-> <<c, s>>]
OutOfChapter(c) ==
    <<ChapterHeader(c)>> \o
    [i \in 1..Len(UnitsOfChapter(c)) |->
        [kind |-> "text", unit |-> UnitsOfChapter(c)[i], body |-> <<TextLong>>]]
RECURSIVE OutOfChapters(_)
OutOfChapters(n) == IF n = 0 THEN <<>> ELSE OutOfChapters(n - 1) \o OutOfChapter(n)
OutlineUnitsExpected ==
    IF total_outline_items > OUTLINE_CHUNK_THRESHOLD
    THEN [k \in 1..CeilDiv(I_numberOfChapters, CHAPTERS_PER_OUTLINE_CHUNK) |->
             ChunkRange(k)]
    ELSE << <<0, 0>> >>
TextsWritten == {i \in 1..Len(out) : out[i].kind = "text"}
C21_CleanSession ==
    /\ [](pc = "done" =>
            /\ h.passUnits = OutlineUnitsExpected
            /\ Len(h.passAccepted) = Len(h.passUnits)
            /\ ~h.regenerated
            /\ out = <<HeaderRecord>> \o OutOfChapters(I_numberOfChapters)
            /\ Cardinality(TextsWritten) =
                   IF numberOfSubchapters = 0 THEN I_numberOfChapters
                   ELSE I_numberOfChapters * numberOfSubchapters)
    /\ [][/\ pc = "attempt_top" /\ pc' = "calling" => attempt = 1
          /\ pc = "sub_for" /\ pc' = "chapter_for" =>
                 /\ Len(current_chapter_content_parts) = numberOfSubchapters
                 /\ lastGeneratedChapter_Full' = current_chapter_content_parts]_vars
C21_Witness ==
    /\ pc = "done"
    /\ I_numberOfChapters = 20
    /\ I_wordsPerChapter = 3000
    /\ Len(h.passUnits) = 7
    /\ Cardinality(TextsWritten) = 120
    /\ Len(out) = 1 + 20 + 120

\* C22: a request for a chapter or sub-chapter is sent only with the outline
\* frozen and the header written; when it is sent, every unit before it, in
\* the order chapter by chapter and sub-chapter by sub-chapter, has its text
\* or its error marker in the output, once and in that order, and no unit
\* from it onwards has any; a request is sent only from the top of the
\* attempt loop, never while another is awaiting its answer.
RECURSIVE UnitsOfChapters(_)
UnitsOfChapters(n) == IF n = 0 THEN <<>> ELSE UnitsOfChapters(n - 1) \o UnitsOfChapter(n)
IsUnitRecord(r) == r.kind \in {"text", "error"}
UnitsEnded == [i \in 1..Len(SelectSeq(out, IsUnitRecord)) |-> SelectSeq(out, IsUnitRecord)[i].unit]
C22_ContentCallInOrder ==
    pc = "calling" /\ InContent =>
        /\ h.frozen
        /\ G_bookOutline = h.frozenOutline
        /\ Len(out) > 0 /\ out[1].kind = "header"
        /\ prompt.unit = CurrentUnit
        /\ Len(UnitsEnded) < Len(UnitsOfChapters(I_numberOfChapters))
        /\ UnitsEnded = SubSeq(UnitsOfChapters(I_numberOfChapters), 1, Len(UnitsEnded))
        /\ UnitsOfChapters(I_numberOfChapters)[Len(UnitsEnded) + 1] = CurrentUnit
C22_OneCallAtATime == [][pc' = "calling" => pc = "attempt_top"]_vars
C22_Sequential == []C22_ContentCallInOrder /\ C22_OneCallAtATime
C22_Witness ==
    /\ pc = "calling"
    /\ phase = "sub"
    /\ CurrentUnit = <<2, 2>>
    /\ attempt = 1
    /\ \E i \in 1..Len(out) : out[i].kind = "error" /\ out[i].unit = <<1, 4>>

\* C23: a session that ends otherwise than after its last chapter ends
\* because no key was given at the quota prompt, because the retry of a
\* failed outline was refused, or because a write failed.
EndedByAbandonment ==
    \/ exitReason = "quota_abandoned"
    \/ exitReason = "outline_fatal" /\ response.kind = "quota"
C23_EarlyEndCauses ==
    pc = "exit" =>
        \/ EndedByAbandonment
        \/ exitReason = "outline_refused"
        \/ exitReason = "write_failure"

\* C24: once a write has failed, or the final document could not be made,
\* the session is over, it is told as failed and not as finished, and no
\* request is sent.
StoringFailed == exitReason = "write_failure" \/ h.documentFailed
C24_StoringFailureIsFatal ==
    StoringFailed =>
        /\ pc \in {"exit", "done"}
        /\ exitReason # "finished"

\* C25: the total of generated words is the sum of the words of the texts
\* kept so far (those written, and the one whose write has just failed);
\* it grows by the words of a text when that text is kept and no other step
\* changes it, but the reset to 0 when the header is written.
RECURSIVE WordsWritten(_)
WordsWritten(records) ==
    IF records = <<>> THEN 0
    ELSE (IF Head(records).kind = "text" THEN Head(records).body[1].words ELSE 0)
         + WordsWritten(Tail(records))
WordsKept ==
    WordsWritten(out)
    + (IF /\ exitReason = "write_failure"
          /\ InContent
          /\ response.kind = "text"
          /\ ~unit_generated_successfully
       THEN response.body[1].words ELSE 0)
TextIsKept == TextIsAnswered /\ attempt' = attempt
C25_TotalIsSum == totalGeneratedWords = WordsKept
C25_TotalGrowsOnKeep ==
    [][/\ TextIsKept =>
              totalGeneratedWords' = totalGeneratedWords + response'.body[1].words
       /\ totalGeneratedWords' # totalGeneratedWords =>
              TextIsKept \/ pc = "write_header"
       /\ pc = "calling" /\ response'.kind \in {"error", "quota"} =>
              totalGeneratedWords' = totalGeneratedWords
       /\ pc = "unit_loop_end" => totalGeneratedWords' = totalGeneratedWords]_vars
C25_WordTotal == []C25_TotalIsSum /\ C25_TotalGrowsOnKeep
C25_Witness ==
    /\ regenOnLowWords
    /\ InContent
    /\ currentChapter = 2
    /\ attempt = MAX_GENERATION_ATTEMPTS
    /\ unit_generated_successfully
    /\ response = TextResponse(TextShort)
    /\ totalGeneratedWords = TextLong.words + TextShort.words

\* C26: with sub-chapters, from the end of the sub-chapter loop of chapter k
\* and all through chapter k+1 the chapter-level context is the texts kept
\* for the sub-chapters of chapter k, in their order, joined by a blank
\* line; it is the value handed to generatePrompt for the first unit of
\* chapter k+1.
IsTextOfChapter(c, r) == r.kind = "text" /\ r.unit[1] = c
TextsOfChapter(c) ==
    LET at == {i \in 1..Len(out) : IsTextOfChapter(c, out[i])}
        nth[k \in 1..Cardinality(at)] ==
            CHOOSE i \in at : Cardinality({j \in at : j < i}) = k - 1
    IN [k \in 1..Cardinality(at) |-> out[nth[k]].body[1]]
JoinedByBlankLine(texts) == IF texts = <<>> \/ texts = <<TextEmpty>> THEN <<>> ELSE texts
C26_ChapterContextFromSubs ==
    /\ phase = "sub" /\ pc = "chapter_for" =>
           lastGeneratedChapter_Full =
               JoinedByBlankLine(TextsOfChapter(currentChapter))
    /\ (/\ phase = "sub"
        /\ pc \in {"sub_for", "attempt_top", "calling", "quota_prompt",
                   "unit_loop_end"}
        /\ currentChapter > 1) =>
           lastGeneratedChapter_Full =
               JoinedByBlankLine(TextsOfChapter(currentChapter - 1))
    /\ (/\ phase = "sub"
        /\ pc = "calling"
        /\ currentChapter > 1
        /\ currentSubChapter = 1) =>
           prompt = generatePrompt(3, wordsPerChapter_gen,
                                   wordsPerSubchapter_gen, G_bookOutline,
                                   <<>>,
                                   JoinedByBlankLine(
                                       TextsOfChapter(currentChapter - 1)),
                                   currentChapter, 1, 0, 0, <<>>)
C26_Witness ==
    /\ phase = "sub"
    /\ pc = "calling"
    /\ currentChapter = 2
    /\ currentSubChapter = 1
    /\ lastGeneratedChapter_Full = <<TextLong, TextLong, TextShort, TextLong>>

\* C27: the interrupt leaves the output as it was, takes the worker out of
\* generation, and from then on no request is sent, no unit begun and
\* nothing of the output changed.
IsInterrupted == exitReason = "interrupted"
IsHttpReply == pc = "answered" /\ h.reply.transport = "ok"
HasErrorPayload == h.reply.json /\ h.reply.error.present
PayloadSaysQuota ==
    /\ HasErrorPayload
    /\ \/ h.reply.error.hasCode /\ h.reply.error.code = 429
       \/ /\ h.reply.error.hasMessage
          /\ \/ Contains(Lower(h.reply.error.message), WordQuota)
             \/ Contains(Lower(h.reply.error.message), WordRateLimit)
SaysQuota == h.reply.status = 429 \/ PayloadSaysQuota
C28_QuotaClassification ==
    IsHttpReply =>
        /\ response.kind = "quota" <=> SaysQuota
        /\ (HasErrorPayload /\ ~SaysQuota) =>
               /\ response.kind = "error"
               /\ h.reply.error.hasMessage =>
                      response.body[Len(response.body)] = h.reply.error.message

\* C29: of an HTTP-200 reply without an error payload, the text is returned
\* only when the first part has a text and the finish reason is STOP or
\* MAX_TOKENS; with another finish reason a text is dropped for a warning,
\* and without a text an error is returned.
IsPlainReply ==
    /\ IsHttpReply
    /\ h.reply.json
    /\ h.reply.status = 200
    /\ ~h.reply.error.present
ReplyCandidate == h.reply.candidates.list[1]
ReplyHasText ==
    /\ h.reply.candidates.has
    /\ h.reply.candidates.list # <<>>
    /\ ReplyCandidate.hasContent
    /\ ReplyCandidate.content.hasParts
    /\ ReplyCandidate.content.parts # <<>>
    /\ ReplyCandidate.content.parts[1].hasText
ReplyFinishedNaturally ==
    /\ h.reply.candidates.has
    /\ h.reply.candidates.list # <<>>
    /\ ReplyCandidate.hasFinish
    /\ ReplyCandidate.finishReason \in {"STOP", "MAX_TOKENS"}
Waiting == h.gui.result_queue # 0
SessionUnchanged ==
    /\ UNCHANGED <<inputs, apiKey, derived, outlineVars, loopVars,
                   contentVars, pc, prompt, response, out, exitReason,
                   faults>>
    /\ [h' EXCEPT !.gui = h.gui] = h
C30_OneResultForTheWaiter ==
    \A i \in 1..Len(h.gui.result_queues) :
        /\ Len(h.gui.result_queues[i]) <= 1
        /\ h.gui.result_queues[i] # <<>> => i = h.gui.result_queue
C30_WorkerWaits ==
    Waiting =>
        /\ pc' # "calling"
        /\ IF h.gui.result_queues[h.gui.result_queue] = <<>>
           THEN SessionUnchanged /\ h.gui.result_queue' = h.gui.result_queue
           ELSE TRUE
C30_ResultToAsker ==
    \A i \in 1..Len(h.gui.result_queues) :
        Len(h.gui.result_queues'[i]) > Len(h.gui.result_queues[i]) =>
            /\ h.gui.dialog.rq = i
            /\ h.gui.result_queue = i
C30_PromptRoundTrip ==
    /\ []C30_OneResultForTheWaiter
    /\ [][C30_WorkerWaits]_vars
    /\ [][C30_ResultToAsker]_vars
C30_Witness ==
    /\ Len(h.gui.result_queues) = 3
    /\ ~Waiting
    /\ apiKey.id = 1
    /\ pc = "attempt_top"
    /\ InContent
    /\ h.frozen

\* C31: final.py and gui.py are the same orchestration: in every state either
\* of them reaches, what is done next (a call, a prompt offered, a text
\* accepted) is what the other does in that state.
OtherFront == IF ui = "cli" THEN "gui" ELSE "cli"
C31_SamePassEnd ==
    pc \in {"chunks_done", "single_loop_end"} =>
        AfterPass(ui, phase, outline_generation_failed)
            = AfterPass(OtherFront, phase, outline_generation_failed)
C31_SameOutlineEnd ==
    pc = "post_outline" =>
        AfterOutline(ui, outline_generated_successfully,
                     outline_regeneration_requested)
            = AfterOutline(OtherFront, outline_generated_successfully,
                           outline_regeneration_requested)
C31_NoCallAfterFailure ==
    (pc = "attempt_top" /\ h.unitFailed) =>
        ~LoopCondition(attempt, unit_generated_successfully)
C31_SameOrchestration ==
    /\ C31_SamePassEnd
    /\ C31_SameOutlineEnd
    /\ C31_NoCallAfterFailure

\* C32: a chapter or sub-chapter whose attempt loop has ended, the session
\* going on, has exactly one record in the output: its text if it was
\* generated, its error marker if it failed; no unit ever has two, and at the
\* end of the session every unit has one.
IsRecordOfCurrentUnit(r) == IsUnitRecord(r) /\ r.unit = CurrentUnit
RecordsOfCurrentUnit == SelectSeq(out, IsRecordOfCurrentUnit)
C32_OneRecordWhenEnded ==
    pc = "unit_loop_end" =>
        /\ Len(RecordsOfCurrentUnit) = 1
        /\ RecordsOfCurrentUnit[1].kind = "text" <=> unit_generated_successfully
        /\ RecordsOfCurrentUnit[1].kind = "error" <=> h.unitFailed
C32_NeverTwo ==
    \A i, j \in 1..Len(out) :
        (IsUnitRecord(out[i]) /\ IsUnitRecord(out[j]) /\ out[i].unit = out[j].unit)
            => i = j
C32_AllWhenDone ==
    pc = "done" => UnitsEnded = UnitsOfChapters(I_numberOfChapters)
C32_OneRecordPerUnit ==
    /\ C32_OneRecordWhenEnded
    /\ C32_NeverTwo
    /\ C32_AllWhenDone
C32_Witness ==
    /\ pc = "done"
    /\ numberOfSubchapters > 0
    /\ I_numberOfChapters = 2
    /\ \E i \in 1..Len(out) : out[i].kind = "error" /\ out[i].unit = <<1, 2>>
    /\ \E i \in 1..Len(out) : out[i].kind = "text" /\ out[i].unit = <<2, 1>>

\* C33: the calls made for a unit are at most 4 plus the keys accepted while
\* it was in progress, a key accepted leaving the attempt number as it was;
\* and the attempt loop of a unit is left, by success, failure or the end of
\* the session, when quota errors come finitely often.
InAttemptLoop == pc \in {"attempt_top", "calling", "quota_prompt"}
C33_CallsBounded ==
    /\ h.calls <= MAX_GENERATION_ATTEMPTS + h.keys
    /\ AtCall => h.calls = attempt + h.keys
C33_KeyKeepsAttempt == [][h'.keys > h.keys => attempt' = attempt /\ h'.calls = h.calls]_vars
C33_LoopEnds == InAttemptLoop ~> ~InAttemptLoop
FailureReturned ==
    /\ pc = "calling"
    /\ h.reply # NoReply
    /\ getResponse(h.reply).prefix # ""
C34_FailureNeverStored ==
    [][FailureReturned =>
          /\ response'.kind \in {"quota", "error"}
          /\ UNCHANGED <<G_bookOutline, full_outline_parts,
                         previous_outline_context, lastGeneratedChapter_Full,
                         lastGeneratedSubchapter_Full,
                         current_chapter_content_parts, totalGeneratedWords,
                         outline_generated_successfully,
                         unit_generated_successfully>>
          /\ \/ out' = out
             \/ /\ Len(out') = Len(out) + 1
                /\ SubSeq(out', 1, Len(out)) = out
                /\ out'[Len(out')].kind = "error"]_vars
C34_Witness ==
    /\ h.reply = ReplyOf(200, NoPayload, [has |-> TRUE, list |-> <<>>])
    /\ response = ErrorResponse("Error parsing response:")
    /\ InContent
    /\ pc = "unit_loop_end"
    /\ LastOut.kind = "error"
    /\ totalGeneratedWords > 0

\* C35: the chapter ranges of the chunks of a pass: chunk i covers
\* 3(i-1)+1 .. min(3i, N); each is non-empty, each begins where the one
\* before ended, the first at 1; all but the last have 3 chapters; and the
\* ranges of a pass that generated the outline end at N, so cover 1..N.
ChaptersOfRange(range) == range[1]..range[2]
C35_ChunkRanges ==
    phase = "chunk" =>
        /\ \A i \in 1..Len(h.passUnits) :
               /\ h.passUnits[i][1] = 3 * (i - 1) + 1
               /\ h.passUnits[i][2] =
                      IF 3 * i < I_numberOfChapters THEN 3 * i
                      ELSE I_numberOfChapters
               /\ ChaptersOfRange(h.passUnits[i]) # {}
               /\ i > 1 => h.passUnits[i][1] = h.passUnits[i - 1][2] + 1
               /\ i < Len(h.passUnits) =>
                      Cardinality(ChaptersOfRange(h.passUnits[i])) = 3
               /\ \A j \in 1..Len(h.passUnits) :
                      i # j => ChaptersOfRange(h.passUnits[i])
                                   \cap ChaptersOfRange(h.passUnits[j]) = {}
        /\ outline_generated_successfully =>
               UNION {ChaptersOfRange(h.passUnits[i]) :
                          i \in 1..Len(h.passUnits)} = 1..I_numberOfChapters
C35_Witness ==
    /\ phase = "chunk"
    /\ outline_generated_successfully
    /\ I_numberOfChapters = 16
    /\ Len(h.passUnits) = 6
    /\ h.passUnits[6] = <<16, 16>>
    /\ h.regenerated

\* C36: for every accepted wordsPerChapter the number of sub-chapters is 0
\* or in 4..30, and it is the ceiling of w / 500 itself whenever sub-chapters
\* are used (the minimum of 3 changes nothing); with sub-chapters, the words
\* of a sub-chapter are at most 500 and sub-chapters x words per sub-chapter
\* is at least wordsPerChapter.
C36_DerivedRanges ==
    pc # "start" =>
        /\ I_wordsPerChapter \in 100..15000
        /\ numberOfSubchapters = 0 \/ numberOfSubchapters \in 4..30
        /\ numberOfSubchapters > 0 =>
               /\ numberOfSubchapters * 500 >= I_wordsPerChapter
               /\ (numberOfSubchapters - 1) * 500 < I_wordsPerChapter
               /\ wordsPerSubchapter <= 500
               /\ wordsPerSubchapter > 0
               /\ numberOfSubchapters * wordsPerSubchapter
                      >= I_wordsPerChapter
C36_Witness ==
    /\ pc # "start"
    /\ I_wordsPerChapter = 15000
    /\ numberOfSubchapters = 30
    /\ wordsPerSubchapter = 500

\* C37: at the key prompt an entry is taken for the key only if it is longer
\* than 30 characters and contains "AI"; any other non-empty entry leaves
\* the key, the attempt and the prompt as they were, makes no call and asks
\* again; an empty entry gives the unit up without a call; and every call
\* is made with the entry last accepted (the key of the session until one
\* is).
C37_EntryHandled ==
    [][pc = "quota_prompt" =>
           IF h'.entry.len = 0
           THEN /\ apiKey' = apiKey
                /\ h'.calls = h.calls
                /\ pc' \notin {"quota_prompt", "attempt_top", "calling"}
                /\ InOutline => outline_generation_failed'
                /\ ~InOutline => pc' = "exit"
           ELSE IF h'.entry.len > 30 /\ h'.entry.hasAI
           THEN /\ apiKey' = h'.entry
                /\ h'.accepted = h'.entry
                /\ pc' = "attempt_top"
                /\ attempt' = attempt
           ELSE /\ apiKey' = apiKey
                /\ h'.accepted = h.accepted
                /\ h'.calls = h.calls
                /\ pc' = "quota_prompt"
                /\ attempt' = attempt
                /\ prompt' = prompt]_vars
C37_KeyChangesAtPromptOnly ==
    [][apiKey' # apiKey =>
           /\ pc = "quota_prompt"
           /\ apiKey'.len > 30
           /\ apiKey'.hasAI]_vars
C37_CallsUseLastAccepted ==
    /\ apiKey = h.accepted
    /\ pc = "calling" => h.callKey = h.accepted
C37_Credential ==
    /\ C37_EntryHandled
    /\ C37_KeyChangesAtPromptOnly
    /\ []C37_CallsUseLastAccepted
\* the second of the two keys was accepted in an earlier unit, and the first
\* call of a later unit is being made with it
C37_Witness ==
    /\ pc = "calling"
    /\ h.accepted.id = 5
    /\ h.callKey.id = 5
    /\ h.entry.id = 5
    /\ h.calls = 1
    /\ h.keys = 0
    /\ InContent

\* C38: in the GUI there is never more than one generation thread; the
\* Generate button is disabled when a thread is started and for as long as
\* one runs; the button is enabled again only by process_queue taking a
\* generation_finished message; every thread puts that message exactly once,
\* as its last statement, whether it ran to the end or an error was raised
\* or the user gave up; and gen_state is written only while a thread runs.
WorkerRuns == pc \notin {"idle", "returned"}
C38_OneWorker ==
    /\ h.app.workers \in {0, 1}
    /\ h.app.workers = 1 <=> WorkerRuns
    /\ h.app.workers = 1 \/ h.app.starting => h.app.button = "disabled"
    /\ h.app.sent = (IF pc = "returned" THEN 1 ELSE 0)
C38_StartAndEnd ==
    [][/\ h'.app.workers > h.app.workers =>
              h.app.button = "disabled" /\ h.app.workers = 0
       /\ h.app.button = "disabled" /\ h'.app.button = "normal" =>
              /\ h.gui.gui_queue # <<>>
              /\ Head(h.gui.gui_queue).type = "generation_finished"
              /\ h'.gui.gui_queue = Tail(h.gui.gui_queue)
              /\ pc = "returned"
       /\ pc \in {"done", "exit"} =>
              /\ pc' = "returned"
              /\ Len(h'.gui.gui_queue) = Len(h.gui.gui_queue) + 2
              /\ h'.gui.gui_queue[Len(h'.gui.gui_queue)]
                     = FinishedMessage(pc = "done")
       /\ gen_state' # gen_state => h.app.workers = 1 /\ h'.app.workers = 1
      ]_vars
C38_FinishedMessages ==
    Cardinality({i \in 1..Len(h.gui.gui_queue) :
                     h.gui.gui_queue[i].type = "generation_finished"}) <= 1
C38_SingleWorker ==
    /\ []C38_OneWorker
    /\ C38_StartAndEnd
    /\ []C38_FinishedMessages
\* a second thread runs, after the first has returned and its message has
\* enabled the button again
C38_Witness ==
    /\ h.runs = 2
    /\ h.app.workers = 1
    /\ h.app.button = "disabled"
    /\ pc = "calling"
    /\ h.gui.gui_queue = <<>>
\* the thread has returned after the user gave up at the key prompt; the
\* error box is open and the message is still on the queue
C38_WitnessReturned ==
    /\ pc = "returned"
    /\ exitReason = "quota_abandoned"
    /\ h.app.button = "disabled"
    /\ h.gui.dialog = ShowErrorMessage
    /\ h.gui.gui_queue = <<FinishedMessage(FALSE)>>

\* C39: the prompt of a sub-chapter is the same whatever the chapter-level
\* context handed to generatePrompt; its continuity context is the end of
\* the text last kept for a sub-chapter of the chapter in progress, and the
\* first-sub-chapter notice when none was kept yet, so nothing of the
\* chapter before is in it.
ChapterContextValues ==
    {<<>>, <<TextLong>>, <<TextLong, TextShort>>, lastGeneratedChapter_Full}
SubPromptWith(lastChapter) ==
    generatePrompt(3, wordsPerChapter_gen, wordsPerSubchapter_gen,
                   G_bookOutline, lastGeneratedSubchapter_Full, lastChapter,
                   currentChapter, currentSubChapter, 0, 0, <<>>)
LastKeptOfChapter(c) ==
    IF TextsOfChapter(c) = <<>> THEN <<>>
    ELSE JoinedByBlankLine(<<TextsOfChapter(c)[Len(TextsOfChapter(c))]>>)
C39_SubPromptContext ==
    phase = "sub" /\ pc = "calling" =>
        /\ \A lastChapter \in ChapterContextValues :
               SubPromptWith(lastChapter) = prompt
        /\ prompt.context = prev_sub_context(LastKeptOfChapter(currentChapter))
        /\ TextsOfChapter(currentChapter) = <<>> =>
               prompt.context.form
                   = "N/A - This is the first sub-chapter of the chapter or book."
\* the first sub-chapter of chapter 2 is asked for: the chapter-level context
\* holds the text of chapter 1 and the prompt has the first-sub-chapter notice
C39_Witness ==
    /\ phase = "sub"
    /\ pc = "calling"
    /\ currentChapter = 2
    /\ currentSubChapter = 1
    /\ lastGeneratedChapter_Full # <<>>
    /\ TextsOfChapter(1) # <<>>
    /\ prompt.context.form
           = "N/A - This is the first sub-chapter of the chapter or book."

====
